---------------------------- MODULE Spec2Model ----------------------------
(***************************************************************************)
(* Receipt analysis service (python-ocr): the /analyze request handler,    *)
(* the reconciliation of the cloud result with the local OCR location      *)
(* (override_merchant_data_with_tesseract) and the receipt validator.      *)
(*                                                                         *)
(* Text is a sequence of one-character strings.  A confidence is an        *)
(* integer number of hundredths (0.7 is 70, 0.25 is 25).                   *)
(***************************************************************************)
EXTENDS Integers, Sequences, FiniteSets, TLC

\* ------------------------------------------------------------------------
\* Python values
\* ------------------------------------------------------------------------

\* Python's None where a str is expected (no text is a one-element tuple
\* holding a word that is no character).
None == <<"None">>

\* Python's None where a dict is expected.
NoneD == [none |-> TRUE]

\* bool(text) for an optional str: None and "" are falsy.
Truthy(text) == text # None /\ text # <<>>

UpperSeq ==
  <<"A","B","C","D","E","F","G","H","I","J","K","L","M",
    "N","O","P","Q","R","S","T","U","V","W","X","Y","Z">>

LowerSeq ==
  <<"a","b","c","d","e","f","g","h","i","j","k","l","m",
    "n","o","p","q","r","s","t","u","v","w","x","y","z">>

Digits == {"0","1","2","3","4","5","6","7","8","9"}

Whitespace == {" ", "\t", "\n"}

IsUpper(c) == \E i \in 1..Len(UpperSeq) : UpperSeq[i] = c
IsLower(c) == \E i \in 1..Len(LowerSeq) : LowerSeq[i] = c

\* str.isalpha, str.isdigit, str.isalnum, str.isspace on one character
isalpha(c) == IsUpper(c) \/ IsLower(c)
isdigit(c) == c \in Digits
isalnum(c) == isalpha(c) \/ isdigit(c)
isspace(c) == c \in Whitespace

\* str.lower on one character, then on a text
LowerChar(c) ==
  IF IsUpper(c) THEN LowerSeq[CHOOSE i \in 1..Len(UpperSeq) : UpperSeq[i] = c]
  ELSE c

lower(text) == [i \in 1..Len(text) |-> LowerChar(text[i])]

\* sum(pred(c) for c in text)
CountAlpha(text) ==
  Cardinality({ i \in 1..Len(text) : isalpha(text[i]) })

CountSpecial(text) ==
  Cardinality({ i \in 1..Len(text) :
                  ~isalnum(text[i]) /\ ~isspace(text[i]) })

\* str.strip(): leading and trailing whitespace removed
RECURSIVE LStrip(_)
LStrip(text) ==
  IF text # <<>> /\ isspace(Head(text)) THEN LStrip(Tail(text)) ELSE text

RECURSIVE RStrip(_)
RStrip(text) ==
  IF text # <<>> /\ isspace(text[Len(text)])
  THEN RStrip(SubSeq(text, 1, Len(text) - 1))
  ELSE text

strip(text) == RStrip(LStrip(text))

\* str.split(): the maximal runs of non-whitespace characters, in order
\* the words of text that start at or after position i, in order
RECURSIVE SplitFrom(_, _)
SplitFrom(text, i) ==
  LET starts == { j \in i..Len(text) :
                    ~isspace(text[j]) /\ (j = 1 \/ isspace(text[j - 1])) }
  IN IF starts = {} THEN <<>>
     ELSE LET first == CHOOSE j \in starts : \A k \in starts : j <= k
              last  == CHOOSE e \in first..Len(text) :
                         /\ \A k \in first..e : ~isspace(text[k])
                         /\ e = Len(text) \/ isspace(text[e + 1])
          IN <<SubSeq(text, first, last)>> \o SplitFrom(text, last + 1)

split(text) == SplitFrom(text, 1)

\* needle in text (substring test)
Contains(text, needle) ==
  \E i \in 1..(Len(text) - Len(needle) + 1) :
    SubSeq(text, i, i + Len(needle) - 1) = needle

\* text.replace(c, '') for every character c of chars
RECURSIVE RemoveChars(_, _)
RemoveChars(text, chars) ==
  IF text = <<>> THEN <<>>
  ELSE IF Head(text) \in chars THEN RemoveChars(Tail(text), chars)
       ELSE <<Head(text)>> \o RemoveChars(Tail(text), chars)

\* dict.get(key, default)
Get(d, key, default) == IF key \in DOMAIN d THEN d[key] ELSE default

\* d[key] = value
Put(d, key, value) == (key :> value) @@ d


\* ------------------------------------------------------------------------
\* Texts the engines can produce
\* ------------------------------------------------------------------------

ACME_MART     == <<"A","C","M","E"," ","M","A","R","T">>
Acme_Mart     == <<"A","c","m","e"," ","M","a","r","t">>
Corner_Deli   == <<"C","o","r","n","e","r"," ","D","e","l","i">>
Walmart       == <<"W","a","l","m","a","r","t">>
Unknown_Store == <<"U","n","k","n","o","w","n"," ","S","t","o","r","e">>

\* special-character ratio 4/9 and no run of three letters
GibberishName == <<"a","#","!"," ","b","@"," ","c","%">>
\* only letters and a space, but no word of three characters
ShortWords    == <<"a","b"," ","c","d">>

MainStreet    == <<"1","2"," ","M","a","i","n"," ","S","t","r","e","e","t">>
CloudRoad     == <<"1"," ","C","l","o","u","d"," ","R","o","a","d">>
GibberishAddr == <<"#","@"," ","&","%"," ","1","#">>

LocalPhoneA   == <<"+","6","5","6","1","2","3","4","5","6","7">>
CloudPhone    == <<"+","1","5","5","5","0","1","0","0">>

DocReceipt      == <<"r","e","c","e","i","p","t">>
DocReceiptMeal  == <<"r","e","c","e","i","p","t",".","r","e","t","a","i","l","M","e","a","l">>
DocReceiptUpper == <<"R","E","C","E","I","P","T">>
DocReceiptCap   == <<"R","e","c","e","i","p","t",".","H","o","t","e","l">>
DocInvoice      == <<"i","n","v","o","i","c","e">>
DocUnknown      == <<"u","n","k","n","o","w","n">>
DocRecipe       == <<"r","e","c","i","p","e">>

\* ------------------------------------------------------------------------
\* Pure functions of the router (app/routers/ocr.py)
\* ------------------------------------------------------------------------

MIN_CONFIDENCE == 70

NameMaxLength == 100

AddressMaxLength == 300

PhoneMinLength == 7

ShortNameLength == 2

\* the words of text that count as valid: len(w) >= 3 and any letter in w
valid_words(text) ==
  SelectSeq(split(text), LAMBDA w : Len(w) >= 3 /\ CountAlpha(w) > 0)

\* is_valid_text(text, max_length): letter_ratio < 0.3 is
\* 10 * letter_count < 3 * total, special_ratio > 0.4 is
\* 10 * special_count > 4 * total.
is_valid_text(text, max_length) ==
  IF ~Truthy(text) THEN FALSE
  ELSE IF Len(text) > max_length THEN FALSE
  ELSE IF 10 * CountAlpha(text) < 3 * Len(text)
          \/ 10 * CountSpecial(text) > 4 * Len(text) THEN FALSE
  ELSE IF Len(valid_words(text)) = 0 THEN FALSE
  ELSE TRUE

\* azure_value of lines 350-351 and 380-381: the value of the MerchantName
\* entry, '' when there is no entry
AzureValue(fields) ==
  IF "MerchantName" \in DOMAIN fields
  THEN Get(fields["MerchantName"], "value", <<>>)
  ELSE <<>>

\* not azure_value or len(azure_value.strip()) < 2
NameMissing(fields) ==
  \/ ~Truthy(AzureValue(fields))
  \/ Len(strip(AzureValue(fields))) < ShortNameLength

\* the entry written for a local-OCR store name or address
TesseractEntry(text, confidence) ==
  [type |-> "string", value |-> text, content |-> text,
   confidence |-> confidence, source |-> "tesseract"]

\* TesseractPhoneEntry without the source attribute
TesseractPhoneEntry_NoSource(phone, confidence) ==
  [type |-> "phoneNumber", value |-> phone, content |-> phone,
   confidence |-> confidence]

\* the entry written for a local-OCR phone number
TesseractPhoneEntry(phone, confidence) ==
  [type |-> "phoneNumber", value |-> phone, content |-> phone,
   confidence |-> confidence, source |-> "tesseract"]

\* f'fallback_{fallback_method}'
FallbackSource(method) ==
  CASE method = "known_chain"    -> "fallback_known_chain"
    [] method = "position"       -> "fallback_position"
    [] method = "capitalization" -> "fallback_capitalization"
    [] method = "pattern"        -> "fallback_pattern"
    [] OTHER                     -> "fallback_unknown"

\* FallbackEntry losing the extractor's confidence
FallbackEntry_NoConfidence(fallback_result) ==
  [type |-> "string",
   value |-> fallback_result.store_name,
   content |-> fallback_result.store_name,
   confidence |-> 0,
   source |-> FallbackSource(Get(fallback_result, "method", "unknown"))]

\* the entry written for a fallback extraction result
FallbackEntry(fallback_result) ==
  [type |-> "string",
   value |-> fallback_result.store_name,
   content |-> fallback_result.store_name,
   confidence |-> Get(fallback_result, "confidence", 0),
   source |-> FallbackSource(Get(fallback_result, "method", "unknown"))]

PlaceholderEntry ==
  [type |-> "string", value |-> Unknown_Store, content |-> Unknown_Store,
   confidence |-> 0, source |-> "placeholder",
   requires_manual_review |-> TRUE]

\* PhoneAccepted counting the separators too
PhoneAccepted_CountsSeparators(phone) ==
  Truthy(phone) /\ Len(phone) >= PhoneMinLength

\* the phone check of line 415
PhoneAccepted(phone) ==
  Truthy(phone) /\ Len(RemoveChars(phone, {"+", "-", " "})) >= PhoneMinLength

\* validate_receipt_confidence: the message is the list of the parts of
\* the formatted string
is_receipt_type(doc_type) == Contains(lower(doc_type), DocReceipt)

\* is_confident with a strict comparison
is_confident_Strict(confidence) == confidence > MIN_CONFIDENCE

is_confident(confidence) == confidence >= MIN_CONFIDENCE

ValidationMessage(doc_type, confidence) ==
  IF ~is_receipt_type(doc_type)
  THEN [kind |-> "not_a_receipt", doc_type |-> doc_type]
  ELSE IF ~is_confident(confidence)
       THEN [kind |-> "low_confidence", confidence |-> confidence]
       ELSE [kind |-> "valid", confidence |-> confidence]

validate_receipt_confidence(azure_result) ==
  LET confidence == Get(azure_result, "confidence", 0)
      doc_type   == Get(azure_result, "doc_type", DocUnknown)
  IN [is_valid_receipt |-> is_receipt_type(doc_type) /\ is_confident(confidence),
      confidence |-> confidence,
      message |-> ValidationMessage(doc_type, confidence),
      doc_type |-> doc_type]

\* ------------------------------------------------------------------------
\* Location engine (app/services/tesseract_ocr.py)
\* ------------------------------------------------------------------------

WeightStoreName == 25
WeightAddress == 30
WeightPhone == 20
WeightPostalCode == 15
WeightCountry == 10
StoreNameBonus == 20

\* _calculate_location_confidence with elif for every field but the first
calculate_location_confidence_Elif(store_name, address, phone, postal_code, country) ==
  IF Truthy(store_name) THEN WeightStoreName
  ELSE IF Truthy(address) THEN WeightAddress
  ELSE IF Truthy(phone) THEN WeightPhone
  ELSE IF Truthy(postal_code) THEN WeightPostalCode
  ELSE IF Truthy(country) THEN WeightCountry
  ELSE 0

\* _calculate_location_confidence, in hundredths: round(score, 2) gives the
\* two-decimal value nearest to the float sum, which is the exact sum
calculate_location_confidence(store_name, address, phone, postal_code, country) ==
    (IF Truthy(store_name) THEN WeightStoreName ELSE 0)
  + (IF Truthy(address) THEN WeightAddress ELSE 0)
  + (IF Truthy(phone) THEN WeightPhone ELSE 0)
  + (IF Truthy(postal_code) THEN WeightPostalCode ELSE 0)
  + (IF Truthy(country) THEN WeightCountry ELSE 0)

\* the dict _extract_location_info returns for the five extracted fields
LocationInfo(store_name, address, phone, postal_code, country) ==
  [store_name |-> store_name, address |-> address, phone |-> phone,
   postal_code |-> postal_code, country |-> country,
   confidence |-> calculate_location_confidence(
                    store_name, address, phone, postal_code, country)]

StrategyNames == <<"enhanced", "simple", "high_contrast">>

\* The float confidence + 0.2 of line 102 is not always the float nearest
\* to the decimal sum: 0.4 + 0.2 is 0.6000000000000001 and 0.65 + 0.2 is
\* 0.8500000000000001 (one step above 0.6 and 0.85), 0.7 + 0.2 is
\* 0.8999999999999999 (one step below 0.9). The sign of that error:
BonusRoundingError(confidence) ==
  IF confidence \in {40, 65} THEN 1
  ELSE IF confidence = 70 THEN 0 - 1
  ELSE 0

\* the score of one strategy's location_info (lines 99-102), in
\* thousandths, the last digit holding the rounding error of the addition
StrategyScore(location_info) ==
  IF Truthy(location_info.store_name)
  THEN 10 * (location_info.confidence + StoreNameBonus)
       + BonusRoundingError(location_info.confidence)
  ELSE 10 * location_info.confidence

\* line 108 with >= for >
Improves_OrEqual(score, best_score) == score >= best_score

\* line 108
Improves(score, best_score) == score > best_score

\* lines 63-64
NoBest == [best_result |-> NoneD, best_score |-> 0]

\* one iteration of the loop of lines 66-121: (best_result, best_score)
\* after strategy k gave the outcome o (NoneD: it raised)
AfterStrategy(prev, o, k) ==
  IF o = NoneD THEN prev
  ELSE IF Improves(StrategyScore(o), prev.best_score)
       THEN [best_result |->
               [success |-> TRUE, location |-> o,
                confidence |-> o.confidence,
                strategy_used |-> StrategyNames[k]],
             best_score |-> StrategyScore(o)]
       ELSE prev

\* The loop of lines 63-121 over the outcomes of the three strategies:
\* the state (best_result, best_score) after strategies 1..k.
RECURSIVE BestAfter(_, _)
BestAfter(outcomes, k) ==
  IF k = 0 THEN NoBest
  ELSE AfterStrategy(BestAfter(outcomes, k - 1), outcomes[k], k)

AllStrategiesFailed ==
  [success |-> FALSE, error |-> "All preprocessing strategies failed",
   location |-> NoneD]

ImageOpenFailed ==
  [success |-> FALSE, error |-> "cannot identify image file",
   location |-> NoneD]

\* extract_location_from_bytes for an image that opens (decodable) or not
extract_location_from_bytes(decodable, outcomes) ==
  IF ~decodable THEN ImageOpenFailed
  ELSE LET best == BestAfter(outcomes, Len(outcomes)).best_result
       IN IF best # NoneD THEN best ELSE AllStrategiesFailed

\* ------------------------------------------------------------------------
\* What the request and the external engines can supply
\* ------------------------------------------------------------------------

PostalCode == <<"2","3","8","8","3","9">>
Singapore  == <<"S","i","n","g","a","p","o","r","e">>

Requests ==
  { [extract_location |-> e, auto_crop |-> a, crop_method |-> m] :
      e \in BOOLEAN, a \in BOOLEAN, m \in {"opencv", "azure_layout"} }

\* what the URL serves: a decodable image, a PDF, or no bytes at all
Contents == {"image", "pdf", "empty"}

LocalStoreNames == {None, Acme_Mart, GibberishName, ShortWords}
LocalAddresses  == {None, MainStreet, GibberishAddr}
LocalPhones     == {None, LocalPhoneA}
LocalRegions    ==
  {<<None, None>>, <<PostalCode, None>>, <<PostalCode, Singapore>>}

LocationInfos ==
  { LocationInfo(n, a, p, r[1], r[2]) :
      n \in LocalStoreNames, a \in LocalAddresses, p \in LocalPhones,
      r \in LocalRegions }

\* the three strategies read the same header region; NoneD: they raise
StrategyOutcomes == { <<o, o, o>> : o \in LocationInfos \cup {NoneD} }

CloudEntry(value, confidence) ==
  [value |-> value, content |-> value, confidence |-> confidence]

\* the MerchantName entries the cloud service can return (NoneD: none)
CloudNames ==
  { NoneD,
    CloudEntry(ACME_MART, 90),
    CloudEntry(<<"J","o">>, 50),
    CloudEntry(<<"A"," ">>, 40),
    [value |-> None, content |-> <<"~">>, confidence |-> 10] }

CloudContacts == {FALSE, TRUE}

CloudFields(name, contact) ==
  LET base  == [Total |-> [value |-> <<"9",".","5","0">>,
                           content |-> <<"9",".","5","0">>,
                           confidence |-> 95]]
      named == IF name = NoneD THEN base
               ELSE Put(base, "MerchantName", name)
  IN IF contact
     THEN Put(Put(named, "MerchantAddress", CloudEntry(CloudRoad, 80)),
              "MerchantPhoneNumber", CloudEntry(CloudPhone, 85))
     ELSE named

CloudDocTypes == { <<DocReceiptMeal, 82>>, <<DocInvoice, 90>> }

\* receipt.to_dict() of the documents the cloud service can return
CloudDocuments ==
  { [doc_type |-> d[1], confidence |-> d[2], fields |-> CloudFields(n, c)] :
      d \in CloudDocTypes, n \in CloudNames, c \in CloudContacts }

\* what StoreNameExtractor().extract_from_full_image can do: return None,
\* return a result, or raise (the caller catches it)
FallbackOutcomes ==
  { NoneD, [raised |-> TRUE],
    [store_name |-> Corner_Deli, confidence |-> 60, method |-> "position",
     line_index |-> 0],
    [store_name |-> Walmart, confidence |-> 80, method |-> "known_chain",
     line_index |-> 1] }

\* ------------------------------------------------------------------------
\* State of one /analyze request
\* ------------------------------------------------------------------------

VARIABLES
  request,            \* AnalyzeRequest
  pc,                 \* position in analyze_receipt
  download_attempts,  \* GET requests issued for the image URL
  file_bytes,         \* the image bytes analyze_receipt works on
  boundary_info,      \* set by the layout crop
  crop_log,           \* the detectors step 2 called, and how each ended
  location_data,      \* result of the location engine
  processed_bytes,    \* bytes submitted to the cloud service
  receipt,            \* the document the cloud service returned
  result,             \* receipt.to_dict(), then the reconciled result
  tesseract_location, \* second argument of the reconciliation
  merchant_name_set,  \* local flag of the reconciliation
  fallback_result,    \* what the fallback extractor returned
  fallback_calls,     \* arguments the fallback extractor was called with
  validation,         \* validate_receipt_confidence(result)
  response            \* what the handler returns or raises

\* One call of ImagePreprocessor.process
VARIABLES
  input_bytes,          \* image_bytes, the argument of process
  enable_binarization,  \* ImagePreprocessor.enable_binarization
  pp_pc,                \* position in process
  steps_run,            \* the pipeline steps this call has run
  quality,              \* local of _image_to_bytes
  encoded,              \* the encoding _image_to_bytes holds in output
  returned,             \* what process returned
  calls                 \* the completed calls of process

\* One call of ReceiptDetector.detect_and_crop
VARIABLES
  detection,            \* the image and the contour found in it
  detector_result       \* what detect_and_crop returned

\* One call of AzureReceiptDetector._crop_to_polygon
VARIABLES
  crop_call,            \* the image size and the polygon it is called with
  crop_outcome          \* the rectangle it cut, or that it raised

\* One call of TesseractOCRService._extract_location_info
VARIABLES
  extracted,            \* what the five field extractors returned
  location_info         \* the dict _extract_location_info returns

\* One call of TesseractOCRService.extract_location_from_bytes
VARIABLES
  strategy_call,        \* whether the image opens, what each strategy finds
  strategy_pc,          \* where the call is
  strategy_log,         \* the strategies entered so far
  best,                 \* the locals best_result and best_score
  engine_return         \* what the call returned

\* One call of StoreNameExtractor.extract_from_full_image
VARIABLES
  extractor_call,       \* what the image holds and what each tactic finds
  extractor_pc,         \* where the call is
  tactics_tried,        \* the tactics called so far
  extractor_return      \* what the call returned

\* The event loop serving the /analyze requests
VARIABLES
  thread,               \* the request whose code the loop's thread runs
  position              \* where each request is in analyze_receipt

handlerVars ==
  <<request, pc, download_attempts, file_bytes, boundary_info, crop_log,
    location_data, processed_bytes, receipt, result, tesseract_location,
    merchant_name_set, fallback_result, fallback_calls, validation,
    response>>

preprocessorVars ==
  <<input_bytes, enable_binarization, pp_pc, steps_run, quality, encoded,
    returned, calls>>

detectorVars == <<detection, detector_result, crop_call, crop_outcome>>

engineVars ==
  <<extracted, location_info, strategy_call, strategy_pc, strategy_log,
    best, engine_return, extractor_call, extractor_pc, tactics_tried,
    extractor_return>>

loopVars == <<thread, position>>

vars ==
  <<handlerVars, preprocessorVars, detectorVars, engineVars, loopVars>>

\* what a step of analyze_receipt leaves alone
outsideHandler == <<preprocessorVars, detectorVars, engineVars, loopVars>>

\* the state of the components no call is running in
HandlerIdle ==
  /\ request = NoneD
  /\ pc = "idle"
  /\ download_attempts = 0
  /\ file_bytes = NoneD
  /\ boundary_info = NoneD
  /\ crop_log = <<>>
  /\ location_data = NoneD
  /\ processed_bytes = NoneD
  /\ receipt = NoneD
  /\ result = NoneD
  /\ tesseract_location = NoneD
  /\ merchant_name_set = FALSE
  /\ fallback_result = NoneD
  /\ fallback_calls = <<>>
  /\ validation = NoneD
  /\ response = NoneD

PreprocessorIdle ==
  /\ input_bytes = NoneD
  /\ enable_binarization = FALSE
  /\ pp_pc = "idle"
  /\ steps_run = <<>>
  /\ quality = 0
  /\ encoded = NoneD
  /\ returned = NoneD
  /\ calls = <<>>

GeometryIdle == detection = NoneD /\ detector_result = NoneD

LayoutIdle == crop_call = NoneD /\ crop_outcome = NoneD

DetectorIdle == GeometryIdle /\ LayoutIdle

ParserIdle == extracted = NoneD /\ location_info = NoneD

StrategiesIdle ==
  /\ strategy_call = NoneD /\ strategy_pc = "idle" /\ strategy_log = <<>>
  /\ best = NoneD /\ engine_return = NoneD

ExtractorIdle ==
  /\ extractor_call = NoneD /\ extractor_pc = "idle"
  /\ tactics_tried = <<>> /\ extractor_return = NoneD

EngineIdle == ParserIdle /\ StrategiesIdle /\ ExtractorIdle

LoopIdle == thread = 0 /\ position = <<>>

OutsideHandlerIdle ==
  PreprocessorIdle /\ DetectorIdle /\ EngineIdle /\ LoopIdle

Bytes(content, stage) == [content |-> content, stage |-> stage]

\* bool(image_bytes)
NonEmpty(bytes) == bytes # NoneD /\ bytes.content # "empty"

\* PIL can open the bytes
Decodable(bytes) == bytes # NoneD /\ bytes.content = "image"

HTTP400(detail) == [raised |-> "HTTPException", status_code |-> 400,
                    detail |-> detail]

Init ==
  /\ request \in Requests
  /\ pc = "download"
  /\ download_attempts = 0
  /\ file_bytes = NoneD
  /\ boundary_info = NoneD
  /\ crop_log = <<>>
  /\ location_data = NoneD
  /\ processed_bytes = NoneD
  /\ receipt = NoneD
  /\ result = NoneD
  /\ tesseract_location = NoneD
  /\ merchant_name_set = FALSE
  /\ fallback_result = NoneD
  /\ fallback_calls = <<>>
  /\ validation = NoneD
  /\ response = NoneD
  /\ OutsideHandlerIdle

\* Step 1: download_image(url) returns the content or raises
Download ==
  /\ pc = "download"
  /\ download_attempts' = download_attempts + 1
  /\ \E o \in Contents \cup {"http_error"} :
       IF o = "http_error"
       THEN /\ response' = HTTP400("download failed")
            /\ pc' = "done"
            /\ UNCHANGED file_bytes
       ELSE /\ file_bytes' = Bytes(o, "original")
            /\ pc' = "crop"
            /\ UNCHANGED response
  /\ UNCHANGED <<request, boundary_info, location_data, processed_bytes,
                 receipt, result, tesseract_location, merchant_name_set,
                 fallback_result, fallback_calls, validation>>
  /\ UNCHANGED <<crop_log, outsideHandler>>

\* ReceiptDetector().detect_and_crop: the crop, or the input on any failure
OpenCVCrops(bytes) ==
  {bytes} \cup (IF Decodable(bytes)
                THEN {Bytes(bytes.content, "cropped_opencv")} ELSE {})

\* How the layout strategy can end: "init_error": AzureReceiptDetector()
\* raises (no credentials); "service_error": the layout call raises;
\* "no_crop": no boundary is found or the cropping raises; "cropped"
AzureOutcomes(bytes) ==
  {"init_error", "service_error", "no_crop"}
  \cup (IF Decodable(bytes) THEN {"cropped"} ELSE {})

\* what AzureReceiptDetector.detect_and_crop returns for the outcome
AzureResult(bytes, outcome) ==
  IF outcome = "cropped"
  THEN <<Bytes(bytes.content, "cropped_azure"), [method |-> "azure_layout"]>>
  ELSE <<bytes, NoneD>>

\* AzureReceiptDetector.detect_and_crop: (cropped, boundary_info), or
\* (input, None) when no boundary is found or anything raises inside
AzureCrops(bytes) ==
  { AzureResult(bytes, o) : o \in AzureOutcomes(bytes) \ {"init_error"} }

CropCall(detector, outcome) == [detector |-> detector, outcome |-> outcome]

\* the geometry strategy called by the router: bytes, no boundary_info, log
OpenCVCalls(bytes, log) ==
  { <<b, NoneD,
      Append(log, CropCall("opencv",
                           IF b = bytes THEN "original" ELSE "cropped"))>> :
      b \in OpenCVCrops(bytes) }

\* Step 2 (lines 80-119): what file_bytes, boundary_info and crop_log can
\* become; only an exception leaving the try of line 85 reaches line 97
CropResults(req, bytes) ==
  IF ~req.auto_crop THEN {<<bytes, NoneD, <<>>>>}
  ELSE IF req.crop_method = "azure_layout"
       THEN { <<AzureResult(bytes, o)[1], AzureResult(bytes, o)[2],
                <<CropCall("azure_layout", o)>>>> :
                o \in AzureOutcomes(bytes) \ {"init_error"} }
            \cup OpenCVCalls(bytes, <<CropCall("azure_layout", "init_error")>>)
       ELSE OpenCVCalls(bytes, <<>>)

Crop ==
  /\ pc = "crop"
  /\ \E r \in CropResults(request, file_bytes) :
       /\ file_bytes' = r[1]
       /\ boundary_info' = r[2]
       /\ crop_log' = r[3]
  /\ pc' = "locate"
  /\ UNCHANGED <<request, location_data, processed_bytes,
                 receipt, result,
                 tesseract_location, merchant_name_set, fallback_result,
                 fallback_calls, validation, response>>
  /\ UNCHANGED <<download_attempts, outsideHandler>>

\* Step 3 (lines 121-125)
ExtractLocation ==
  /\ pc = "locate"
  /\ IF request.extract_location
     THEN \E outcomes \in StrategyOutcomes :
            location_data' =
              extract_location_from_bytes(Decodable(file_bytes), outcomes)
     ELSE UNCHANGED location_data
  /\ pc' = "preprocess"
  /\ UNCHANGED <<request, file_bytes, boundary_info, processed_bytes,
                 receipt, result,
                 tesseract_location, merchant_name_set, fallback_result,
                 fallback_calls, validation, response>>
  /\ UNCHANGED <<download_attempts, crop_log, outsideHandler>>

\* ImagePreprocessor.process: the normalized image, or the input unchanged
ProcessResults(bytes) ==
  {bytes} \cup (IF Decodable(bytes)
                THEN {Bytes(bytes.content, "normalized")} ELSE {})

\* Step 4 (line 137)
Preprocess ==
  /\ pc = "preprocess"
  /\ processed_bytes' \in ProcessResults(file_bytes)
  /\ pc' = "analyze"
  /\ UNCHANGED <<request, file_bytes, boundary_info, location_data,
                 receipt, result, tesseract_location, merchant_name_set, fallback_result,
                 fallback_calls, validation, response>>
  /\ UNCHANGED <<download_attempts, crop_log, outsideHandler>>

\* the response of lines 153-157 reporting success
NoReceiptResponse_Success(location) ==
  [success |-> TRUE, error |-> "No receipt data found",
   location |-> location]

\* the response of lines 153-157
NoReceiptResponse(location) ==
  [success |-> FALSE, error |-> "No receipt data found",
   location |-> location]

\* Step 5 (lines 146-160): the cloud call raises, finds no document, or
\* returns the first document
Analyze ==
  /\ pc = "analyze"
  /\ \E o \in CloudDocuments \cup {NoneD, [raised |-> TRUE]} :
       IF o = [raised |-> TRUE]
       THEN /\ response' = HTTP400("analysis failed")
            /\ pc' = "done"
            /\ UNCHANGED <<receipt, result>>
       ELSE IF o = NoneD
            THEN /\ response' = NoReceiptResponse(location_data)
                 /\ pc' = "done"
                 /\ UNCHANGED <<receipt, result>>
            ELSE /\ receipt' = o
                 /\ result' = o
                 /\ pc' = "override"
                 /\ UNCHANGED response
  /\ UNCHANGED <<request, file_bytes, boundary_info, location_data,
                 processed_bytes, tesseract_location, merchant_name_set,
                 fallback_result, fallback_calls, validation>>
  /\ UNCHANGED <<download_attempts, crop_log, outsideHandler>>

\* ------------------------------------------------------------------------
\* Step 6: override_merchant_data_with_tesseract(result, ..., file_bytes)
\* ------------------------------------------------------------------------

\* OverrideArgument always taking the else branch
OverrideArgument_AlwaysFailed(loc_data) == [success |-> FALSE]

\* the second argument analyze_receipt passes (lines 170-175)
OverrideArgument(loc_data) ==
  IF loc_data # NoneD /\ Get(loc_data, "success", FALSE)
  THEN loc_data
  ELSE [success |-> FALSE]

\* the guard of the early return (line 284)
ReturnsEarly(tl) ==
  \/ ~Get(tl, "success", FALSE)
  \/ Get(tl, "location", NoneD) = NoneD

\* lines 290-291
WithFields(azure_result) ==
  IF "fields" \in DOMAIN azure_result THEN azure_result
  ELSE Put(azure_result, "fields", <<>>)

\* result with fields[key] = entry
SetField(azure_result, key, entry) ==
  [azure_result EXCEPT !.fields = Put(@, key, entry)]

OverrideEnter ==
  /\ pc = "override"
  /\ tesseract_location' = OverrideArgument(location_data)
  /\ IF ReturnsEarly(tesseract_location')
     THEN /\ pc' = "validate"
          /\ UNCHANGED result
     ELSE /\ pc' = "ov_name"
          /\ result' = WithFields(result)
  /\ merchant_name_set' = FALSE
  /\ UNCHANGED <<request, file_bytes, boundary_info, location_data,
                 processed_bytes, receipt, fallback_result, fallback_calls,
                 validation, response>>
  /\ UNCHANGED <<download_attempts, crop_log, outsideHandler>>

\* LocalNameAccepted without the validity gate
LocalNameAccepted_NoGate(location) == Truthy(location.store_name)

\* the local store name is written (lines 331-333)
LocalNameAccepted(location) ==
  /\ Truthy(location.store_name)
  /\ is_valid_text(location.store_name, NameMaxLength)

\* lines 328-345
OverrideName ==
  /\ pc = "ov_name"
  /\ LET location == tesseract_location.location
     IN IF LocalNameAccepted(location)
        THEN /\ result' = SetField(result, "MerchantName",
                            TesseractEntry(location.store_name,
                                           Get(location, "confidence", 0)))
             /\ merchant_name_set' = TRUE
        ELSE UNCHANGED <<result, merchant_name_set>>
  /\ pc' = "ov_fallback"
  /\ UNCHANGED <<request, file_bytes, boundary_info, location_data,
                 processed_bytes, receipt, tesseract_location,
                 fallback_result, fallback_calls, validation, response>>
  /\ UNCHANGED <<download_attempts, crop_log, outsideHandler>>

\* FallbackWanted without the look at the name already in the fields
FallbackWanted_NoCloudCheck(name_set, image_bytes, fields) ==
  ~name_set /\ NonEmpty(image_bytes)

\* the fallback extractor is called (lines 348-353)
FallbackWanted(name_set, image_bytes, fields) ==
  /\ ~name_set
  /\ NonEmpty(image_bytes)
  /\ NameMissing(fields)

\* the fallback result is written (line 359)
FallbackFound(fr) ==
  /\ fr # NoneD
  /\ "store_name" \in DOMAIN fr
  /\ Truthy(fr.store_name)

\* lines 347-376
OverrideFallback ==
  /\ pc = "ov_fallback"
  /\ IF FallbackWanted(merchant_name_set, file_bytes, result.fields)
     THEN \E fr \in FallbackOutcomes :
            /\ fallback_calls' = Append(fallback_calls, file_bytes)
            /\ fallback_result' = fr
            /\ IF FallbackFound(fr)
               THEN /\ result' = SetField(result, "MerchantName",
                                          FallbackEntry(fr))
                    /\ merchant_name_set' = TRUE
               ELSE UNCHANGED <<result, merchant_name_set>>
     ELSE UNCHANGED <<result, merchant_name_set, fallback_result,
                      fallback_calls>>
  /\ pc' = "ov_placeholder"
  /\ UNCHANGED <<request, file_bytes, boundary_info, location_data,
                 processed_bytes, receipt, tesseract_location, validation,
                 response>>
  /\ UNCHANGED <<download_attempts, crop_log, outsideHandler>>

\* PlaceholderWanted without the look at the name already in the fields
PlaceholderWanted_NoCloudCheck(name_set, fields) == ~name_set

\* the placeholder is written (lines 379-383)
PlaceholderWanted(name_set, fields) ==
  /\ ~name_set
  /\ NameMissing(fields)

\* lines 378-392
OverridePlaceholder ==
  /\ pc = "ov_placeholder"
  /\ IF PlaceholderWanted(merchant_name_set, result.fields)
     THEN result' = SetField(result, "MerchantName", PlaceholderEntry)
     ELSE UNCHANGED result
  /\ pc' = "ov_address"
  /\ UNCHANGED <<request, file_bytes, boundary_info, location_data,
                 processed_bytes, receipt, tesseract_location,
                 merchant_name_set, fallback_result, fallback_calls,
                 validation, response>>
  /\ UNCHANGED <<download_attempts, crop_log, outsideHandler>>

\* the local address is written (lines 396-398)
LocalAddressAccepted(location) ==
  /\ Truthy(location.address)
  /\ is_valid_text(location.address, AddressMaxLength)

\* lines 395-409
OverrideAddress ==
  /\ pc = "ov_address"
  /\ LET location == tesseract_location.location
     IN IF LocalAddressAccepted(location)
        THEN result' = SetField(result, "MerchantAddress",
                         TesseractEntry(location.address,
                                        Get(location, "confidence", 0)))
        ELSE UNCHANGED result
  /\ pc' = "ov_phone"
  /\ UNCHANGED <<request, file_bytes, boundary_info, location_data,
                 processed_bytes, receipt, tesseract_location,
                 merchant_name_set, fallback_result, fallback_calls,
                 validation, response>>
  /\ UNCHANGED <<download_attempts, crop_log, outsideHandler>>

\* the local phone is written (lines 412-415)
LocalPhoneAccepted(location) ==
  /\ Truthy(location.phone)
  /\ PhoneAccepted(location.phone)

\* lines 411-423
OverridePhone ==
  /\ pc = "ov_phone"
  /\ LET location == tesseract_location.location
     IN IF LocalPhoneAccepted(location)
        THEN result' = SetField(result, "MerchantPhoneNumber",
                         TesseractPhoneEntry(location.phone,
                                             Get(location, "confidence", 0)))
        ELSE UNCHANGED result
  /\ pc' = "ov_metadata"
  /\ UNCHANGED <<request, file_bytes, boundary_info, location_data,
                 processed_bytes, receipt, tesseract_location,
                 merchant_name_set, fallback_result, fallback_calls,
                 validation, response>>
  /\ UNCHANGED <<download_attempts, crop_log, outsideHandler>>

\* the metadata block of lines 429-434
LocationMetadata(tl) ==
  [postal_code |-> tl.location.postal_code,
   country |-> tl.location.country,
   tesseract_confidence |-> tl.location.confidence,
   extraction_strategy |-> Get(tl, "strategy_used", "None")]

\* lines 425-436
OverrideMetadata ==
  /\ pc = "ov_metadata"
  /\ result' = Put(result, "metadata",
                   [location_extraction |->
                      LocationMetadata(tesseract_location)])
  /\ pc' = "validate"
  /\ UNCHANGED <<request, file_bytes, boundary_info, location_data,
                 processed_bytes, receipt, tesseract_location,
                 merchant_name_set, fallback_result, fallback_calls,
                 validation, response>>
  /\ UNCHANGED <<download_attempts, crop_log, outsideHandler>>

\* ------------------------------------------------------------------------
\* Steps 7 and 8: validation and the response
\* ------------------------------------------------------------------------

Validate ==
  /\ pc = "validate"
  /\ validation' = validate_receipt_confidence(result)
  /\ pc' = "respond"
  /\ UNCHANGED <<request, file_bytes, boundary_info, location_data,
                 processed_bytes, receipt, result, tesseract_location,
                 merchant_name_set, fallback_result, fallback_calls,
                 response>>
  /\ UNCHANGED <<download_attempts, crop_log, outsideHandler>>

\* the response of lines 192-210
SuccessResponse(data, verdict, loc_data) ==
  LET base == [success |-> TRUE, data |-> data, validation |-> verdict]
  IN IF loc_data # NoneD THEN Put(base, "location", loc_data) ELSE base

Respond ==
  /\ pc = "respond"
  /\ response' = SuccessResponse(result, validation, location_data)
  /\ pc' = "done"
  /\ UNCHANGED <<request, file_bytes, boundary_info, location_data,
                 processed_bytes, receipt, result, tesseract_location,
                 merchant_name_set, fallback_result, fallback_calls,
                 validation>>
  /\ UNCHANGED <<download_attempts, crop_log, outsideHandler>>

Next ==
  \/ Download
  \/ Crop
  \/ ExtractLocation
  \/ Preprocess
  \/ Analyze
  \/ OverrideEnter
  \/ OverrideName
  \/ OverrideFallback
  \/ OverridePlaceholder
  \/ OverrideAddress
  \/ OverridePhone
  \/ OverrideMetadata
  \/ Validate
  \/ Respond

Spec == Init /\ [][Next]_vars

\* ------------------------------------------------------------------------
\* The validator on its own: every document type and confidence
\* ------------------------------------------------------------------------

MaxConfidence == 100

DocTypes ==
  {DocReceipt, DocReceiptMeal, DocReceiptUpper, DocReceiptCap, DocInvoice,
   DocUnknown, DocRecipe}

ValidatorInputs ==
  { [doc_type |-> d, confidence |-> c, fields |-> CloudFields(NoneD, FALSE)] :
      d \in DocTypes, c \in 0..MaxConfidence }

InitValidate ==
  /\ request \in {r \in Requests : ~r.extract_location /\ ~r.auto_crop
                                   /\ r.crop_method = "opencv"}
  /\ pc = "validate"
  /\ download_attempts = 1
  /\ file_bytes = Bytes("image", "original")
  /\ boundary_info = NoneD
  /\ crop_log = <<>>
  /\ location_data = NoneD
  /\ processed_bytes = Bytes("image", "normalized")
  /\ receipt \in ValidatorInputs
  /\ result = receipt
  /\ tesseract_location = [success |-> FALSE]
  /\ merchant_name_set = FALSE
  /\ fallback_result = NoneD
  /\ fallback_calls = <<>>
  /\ validation = NoneD
  /\ response = NoneD
  /\ OutsideHandlerIdle

NextValidate ==
  \/ Validate
  \/ Respond

SpecValidate == InitValidate /\ [][NextValidate]_vars

\* ------------------------------------------------------------------------
\* ImagePreprocessor.process on its own: payloads with their size in bytes
\* ------------------------------------------------------------------------

MAX_FILE_SIZE_MB == 4

BytesPerMB == 1048576

\* len(image_bytes) / 1024 / 1024 > 3.5, in bytes
SkipThresholdBytes == 3670016

InitialQuality == 95

MinQuality == 60

QualityStep == 5

\* int(max_size_mb * 1024 * 1024)
max_size_bytes(max_size_mb) == max_size_mb * BytesPerMB

\* how far around a threshold the sizes are sampled
SizeMargin == 2

\* how many times process is applied to what it returned
MaxCalls == 2

\* content: what the bytes hold; size: len(); passes: how many times the
\* pipeline has re-encoded them
Payload(content, size, passes) ==
  [content |-> content, size |-> size, passes |-> passes]

SizesNear(size) == { size + d : d \in (0 - SizeMargin)..SizeMargin }

InputSizes ==
  {1024} \cup SizesNear(SkipThresholdBytes)
         \cup SizesNear(max_size_bytes(MAX_FILE_SIZE_MB))

\* "junk": bytes PIL cannot open
ProcessInputs ==
  {Payload("empty", 0, 0)}
  \cup { Payload(c, s, 0) : c \in {"pdf", "image", "junk"}, s \in InputSizes }

\* the sizes a JPEG encoding of the processed image can have
EncodedSizes == {2048} \cup SizesNear(max_size_bytes(MAX_FILE_SIZE_MB))

\* the steps of lines 71-81
PipelineSteps(binarize) ==
  <<"convert_to_rgb", "resize_if_needed", "enhance_contrast",
    "enhance_sharpness", "denoise", "deskew">>
  \o (IF binarize THEN <<"binarize">> ELSE <<>>)

\* the guard of line 53
SkipsLargeInput_AtCeiling(size) == size > max_size_bytes(MAX_FILE_SIZE_MB)

SkipsLargeInput(size) == size > SkipThresholdBytes

\* the break of line 286, never taken
FitsBudget_Never(size, max_bytes) == FALSE

\* the break of line 286, taken at the first encoding
FitsBudget_Always(size, max_bytes) == TRUE

\* the break of line 286
FitsBudget(size, max_bytes) == size <= max_bytes

InitPreprocess ==
  /\ input_bytes \in ProcessInputs
  /\ enable_binarization \in BOOLEAN
  /\ pp_pc = "start"
  /\ steps_run = <<>>
  /\ quality = 0
  /\ encoded = NoneD
  /\ returned = NoneD
  /\ calls = <<>>
  /\ HandlerIdle /\ DetectorIdle /\ EngineIdle /\ LoopIdle

outsidePreprocessor == <<handlerVars, detectorVars, engineVars, loopVars>>

\* the except of line 90 propagating the exception
OnException_Raises(original) == [raised |-> TRUE]

\* what the except of lines 90-107 returns
OnException(original) == original

\* process returns value, via a return statement of the try block or via
\* the except
ProcessReturns(value, via) ==
  /\ returned' = value
  /\ calls' = Append(calls, [input |-> input_bytes, output |-> value,
                             steps |-> steps_run, via |-> via])
  /\ pp_pc' = "done"

\* lines 39-69: the early returns, then Image.open and verify
ProcessEnter ==
  /\ pp_pc = "start"
  /\ IF \/ input_bytes.content = "empty"
        \/ input_bytes.content = "pdf"
        \/ SkipsLargeInput(input_bytes.size)
     THEN ProcessReturns(input_bytes, "return")
     ELSE IF input_bytes.content = "junk"
          THEN ProcessReturns(OnException(input_bytes), "except")
          ELSE /\ pp_pc' = "pipeline"
               /\ UNCHANGED <<returned, calls>>
  /\ UNCHANGED <<input_bytes, enable_binarization, steps_run, quality,
                 encoded, outsidePreprocessor>>

\* lines 71-81: the next step runs, or raises into the except of line 90
PipelineStep ==
  /\ pp_pc = "pipeline"
  /\ Len(steps_run) < Len(PipelineSteps(enable_binarization))
  /\ \E raises \in BOOLEAN :
       IF raises
       THEN /\ ProcessReturns(OnException(input_bytes), "except")
            /\ UNCHANGED steps_run
       ELSE /\ steps_run' =
                 Append(steps_run,
                        PipelineSteps(enable_binarization)[Len(steps_run) + 1])
            /\ UNCHANGED <<pp_pc, returned, calls>>
  /\ UNCHANGED <<input_bytes, enable_binarization, quality, encoded,
                 outsidePreprocessor>>

\* line 84 and lines 273-274: _image_to_bytes is entered
ImageToBytesEnter ==
  /\ pp_pc = "pipeline"
  /\ Len(steps_run) = Len(PipelineSteps(enable_binarization))
  /\ quality' = InitialQuality
  /\ pp_pc' = "encode"
  /\ UNCHANGED <<input_bytes, enable_binarization, steps_run, encoded,
                 returned, calls, outsidePreprocessor>>

\* lines 277-292: one iteration of the loop; image.save can raise
Encode ==
  /\ pp_pc = "encode"
  /\ quality >= MinQuality
  /\ \E s \in EncodedSizes \cup {0} :
       IF s = 0
       THEN /\ ProcessReturns(OnException(input_bytes), "except")
            /\ UNCHANGED <<quality, encoded>>
       ELSE /\ encoded' = Payload("image", s, input_bytes.passes + 1)
            /\ IF FitsBudget(s, max_size_bytes(MAX_FILE_SIZE_MB))
               THEN /\ pp_pc' = "return"
                    /\ UNCHANGED quality
               ELSE /\ quality' = quality - QualityStep
                    /\ pp_pc' = IF quality - QualityStep >= MinQuality
                                THEN "encode" ELSE "return"
            /\ UNCHANGED <<returned, calls>>
  /\ UNCHANGED <<input_bytes, enable_binarization, steps_run,
                 outsidePreprocessor>>

\* lines 297 and 89: the encoding the loop left in output is returned
ProcessReturn ==
  /\ pp_pc = "return"
  /\ ProcessReturns(encoded, "return")
  /\ UNCHANGED <<input_bytes, enable_binarization, steps_run, quality,
                 encoded, outsidePreprocessor>>

\* process is applied to the bytes it returned
ProcessAgain ==
  /\ pp_pc = "done"
  /\ Len(calls) < MaxCalls
  /\ input_bytes' = returned
  /\ pp_pc' = "start"
  /\ steps_run' = <<>>
  /\ quality' = 0
  /\ encoded' = NoneD
  /\ returned' = NoneD
  /\ UNCHANGED <<enable_binarization, calls, outsidePreprocessor>>

NextPreprocess ==
  \/ ProcessEnter
  \/ PipelineStep
  \/ ImageToBytesEnter
  \/ Encode
  \/ ProcessReturn
  \/ ProcessAgain

SpecPreprocess == InitPreprocess /\ [][NextPreprocess]_vars

\* process runs on one thread from its call to its return: a step that can
\* be taken is taken
SpecPreprocessFair == SpecPreprocess /\ WF_vars(NextPreprocess)

\* ------------------------------------------------------------------------
\* ReceiptDetector.detect_and_crop on its own: images by their size in
\* pixels, the contour by its bounding rectangle
\* ------------------------------------------------------------------------

\* self.min_area_ratio and self.max_area_ratio, in per cent
min_area_ratio == 5

max_area_ratio == 98

\* how many pixels short of the whole image the sampled rectangles go
EdgeMargin == 1

Max(a, b) == IF a >= b THEN a ELSE b

Min(a, b) == IF a <= b THEN a ELSE b

\* area / total < percent / 100, and the other comparisons of area_ratio
RatioBelow(area, total, percent) == 100 * area < percent * total

RatioAbove(area, total, percent) == 100 * area > percent * total

\* _validate_detection without the minimum area check
validate_detection_NoMinArea(area, total, width, height) ==
  IF RatioAbove(area, total, max_area_ratio)
  THEN ~RatioBelow(area, total, 95)
  ELSE IF width < 100 \/ height < 100 THEN FALSE
       ELSE ~(Max(width, height) > 15 * Min(width, height))

\* _validate_detection(area_ratio, width, height), area_ratio = area / total
validate_detection(area, total, width, height) ==
  IF RatioBelow(area, total, min_area_ratio) THEN FALSE
  ELSE IF RatioAbove(area, total, max_area_ratio)
       THEN ~RatioBelow(area, total, 95)
       ELSE IF width < 100 \/ height < 100 THEN FALSE
            ELSE ~(Max(width, height) > 15 * Min(width, height))

\* dist_from_center < tenths / 10 (lines 59-69) for the rectangle r in an
\* image of W x H pixels: with a = 2x + w - W and b = 2y + h - H it is
\* (a / 2W)^2 + (b / 2H)^2 < (tenths / 10)^2, compared without fractions
NearCenter(r, W, H, tenths) ==
  LET a == 2 * r.x + r.w - W
      b == 2 * r.y + r.h - H
      n == tenths * tenths
  IN IF H % W = 0
     THEN LET k == H \div W
          IN 25 * (k * k * a * a + b * b) < n * k * k * W * W
     ELSE IF W % H = 0
          THEN LET k == W \div H
               IN 25 * (a * a + k * k * b * b) < n * k * k * H * H
          ELSE 25 * (a * a * H * H + b * b * W * W) < n * W * W * H * H

\* the adaptive padding of lines 71-77
Padding(r, W, H) ==
  LET area  == r.w * r.h
      total == W * H
  IN IF /\ NearCenter(r, W, H, 1)
        /\ ~RatioBelow(area, total, 30) /\ ~RatioAbove(area, total, 90)
     THEN 5
     ELSE IF /\ NearCenter(r, W, H, 3)
             /\ ~RatioBelow(area, total, 20) /\ ~RatioAbove(area, total, 95)
          THEN 10
          ELSE 20

\* lines 81-87 without the max and the min
CropBox_Unclamped(r, W, H) ==
  LET padding == Padding(r, W, H)
  IN [x |-> r.x - padding, y |-> r.y - padding,
      w |-> r.w + 2 * padding, h |-> r.h + 2 * padding]

\* lines 81-87: the rectangle image[y:y+h, x:x+w] is cut from
CropBox(r, W, H) ==
  LET padding == Padding(r, W, H)
      x == Max(0, r.x - padding)
      y == Max(0, r.y - padding)
  IN [x |-> x, y |-> y,
      w |-> Min(W - x, r.w + 2 * padding),
      h |-> Min(H - y, r.h + 2 * padding)]

\* the images detect_and_crop is given
ImageShapes == { [width |-> 400, height |-> 400],
                 [width |-> 1000, height |-> 3000],
                 [width |-> 90, height |-> 270],
                 [width |-> 100, height |-> 1600] }

\* the sampled widths (heights) of a bounding rectangle in an image side
SideSamples(side) ==
  { s \in {1, 99, 100, side \div 4, side \div 2, (side \div 2) + 1,
           side - (side \div 50)}
          \cup { side - d : d \in 0..EdgeMargin } : s <= side }

\* where a rectangle of that width (height) can sit in the side
OffsetSamples(side, length) == {0, (side - length) \div 2, side - length}

\* cv2.boundingRect of the contours _detect_receipt_contour can return
BoundingRects(shape) ==
  UNION { { [x |-> x, y |-> y, w |-> w, h |-> h] :
              x \in OffsetSamples(shape.width, w),
              y \in OffsetSamples(shape.height, h) } :
          w \in SideSamples(shape.width), h \in SideSamples(shape.height) }

\* contour NoneD: _detect_receipt_contour returned None
Detections ==
  UNION { { [shape |-> s, contour |-> c] :
              c \in BoundingRects(s) \cup {NoneD} } :
          s \in ImageShapes }

OriginalImage == [bytes |-> "original"]

CroppedImage(box) == [bytes |-> "cropped", box |-> box]

InitDetect ==
  /\ detection \in Detections
  /\ detector_result = NoneD
  /\ LayoutIdle
  /\ HandlerIdle /\ PreprocessorIdle /\ EngineIdle /\ LoopIdle

\* detect_and_crop (lines 19-96); raises: anything in the try block fails
DetectAndCrop ==
  /\ detection # NoneD
  /\ detector_result = NoneD
  /\ \E raises \in BOOLEAN :
       LET W == detection.shape.width
           H == detection.shape.height
           c == detection.contour
       IN detector_result' =
            IF raises \/ c = NoneD THEN OriginalImage
            ELSE IF ~validate_detection(c.w * c.h, W * H, c.w, c.h)
                 THEN OriginalImage
                 ELSE CroppedImage(CropBox(c, W, H))
  /\ UNCHANGED <<detection, crop_call, crop_outcome, handlerVars,
                 preprocessorVars, engineVars, loopVars>>

NextDetect == DetectAndCrop

SpecDetect == InitDetect /\ [][NextDetect]_vars

\* ------------------------------------------------------------------------
\* TesseractOCRService._extract_location_info on its own: every combination
\* of found and missing fields
\* ------------------------------------------------------------------------

\* what the five extractors of lines 278-282 can return (None: not found)
ExtractedFields ==
  [store_name  : {None, Acme_Mart, GibberishName},
   address     : {None, MainStreet, GibberishAddr},
   phone       : {None, LocalPhoneA, CloudPhone},
   postal_code : {None, PostalCode},
   country     : {None, Singapore}]

InitEngine ==
  /\ extracted \in ExtractedFields
  /\ location_info = NoneD
  /\ StrategiesIdle /\ ExtractorIdle
  /\ HandlerIdle /\ PreprocessorIdle /\ DetectorIdle /\ LoopIdle

\* lines 284-297
ExtractLocationInfo ==
  /\ extracted # NoneD
  /\ location_info = NoneD
  /\ location_info' =
       LocationInfo(extracted.store_name, extracted.address, extracted.phone,
                    extracted.postal_code, extracted.country)
  /\ UNCHANGED <<extracted, strategy_call, strategy_pc, strategy_log, best,
                 engine_return, extractor_call, extractor_pc, tactics_tried,
                 extractor_return, handlerVars, preprocessorVars, detectorVars,
                 loopVars>>

NextEngine == ExtractLocationInfo

SpecEngine == InitEngine /\ [][NextEngine]_vars

\* ------------------------------------------------------------------------
\* Several /analyze requests on the event loop. analyze_receipt is a
\* coroutine: the loop's one thread runs it from an await that suspends to
\* the next. Only the GET of download_image suspends (httpx.AsyncClient);
\* the detectors, the location engine, the preprocessor and both cloud
\* calls (begin_analyze_document, poller.result()) are synchronous calls
\* made on the loop's thread.
\* ------------------------------------------------------------------------

\* how many requests are in flight
NumRequests == 3

LoopRequests == 1..NumRequests

\* the stages of analyze_receipt after the download, in order
StageAfter(stage) ==
  CASE stage = "crop"       -> "locate"
    [] stage = "locate"     -> "preprocess"
    [] stage = "preprocess" -> "analyze"
    [] stage = "analyze"    -> "respond"
    [] stage = "respond"    -> "done"

InitLoop ==
  /\ thread = 0
  /\ position = [r \in LoopRequests |-> "queued"]
  /\ HandlerIdle /\ PreprocessorIdle /\ DetectorIdle /\ EngineIdle

outsideLoop == <<handlerVars, preprocessorVars, detectorVars, engineVars>>

\* the loop starts the coroutine of request r, which runs up to the await
\* of client.get (ocr.py line 71, image_utils.py line 24) and suspends
Accept(r) ==
  /\ thread = 0
  /\ position[r] = "queued"
  /\ position' = [position EXCEPT ![r] = "fetching"]
  /\ UNCHANGED <<thread, outsideLoop>>

\* the response to the GET arrives
FetchCompletes(r) ==
  /\ position[r] = "fetching"
  /\ position' = [position EXCEPT ![r] = "fetched"]
  /\ UNCHANGED <<thread, outsideLoop>>

\* the loop resumes the coroutine of r after the await of line 71; a
\* failed GET raises into the except of line 212
Resume(r) ==
  /\ thread = 0
  /\ position[r] = "fetched"
  /\ \E ok \in BOOLEAN :
       IF ok
       THEN /\ position' = [position EXCEPT ![r] = "crop"]
            /\ thread' = r
       ELSE /\ position' = [position EXCEPT ![r] = "done"]
            /\ thread' = 0
  /\ UNCHANGED outsideLoop

\* the coroutine of r, holding the thread, finishes its stage (lines
\* 80-210); none of the stages suspends, a raise ends the request
Run(r) ==
  /\ thread = r
  /\ \E ok \in BOOLEAN :
       LET next == IF ok THEN StageAfter(position[r]) ELSE "done"
       IN /\ position' = [position EXCEPT ![r] = next]
          /\ thread' = IF next = "done" THEN 0 ELSE r
  /\ UNCHANGED outsideLoop

NextLoop ==
  \E r \in LoopRequests :
    \/ Accept(r)
    \/ FetchCompletes(r)
    \/ Resume(r)
    \/ Run(r)

SpecLoop == InitLoop /\ [][NextLoop]_vars

\* ------------------------------------------------------------------------
\* The reconciliation on its own: every short local store name and address
\* over a small alphabet, and texts at the length caps
\* ------------------------------------------------------------------------

\* a letter, a digit, a special character and a space
GateAlphabet == {"a", "1", "#", " "}

\* the longest enumerated text
MaxTextLen == 5

RECURSIVE Texts(_)
Texts(n) ==
  IF n = 0 THEN {<<>>}
  ELSE LET shorter == Texts(n - 1)
       IN shorter \cup { Append(t, c) :
                           t \in {s \in shorter : Len(s) = n - 1},
                           c \in GateAlphabet }

\* the text of n characters c
Repeat(c, n) == [i \in 1..n |-> c]

\* what _extract_store_name can return: a stripped line of 3 or more
\* characters, whitespace collapsed, with 3 or more letters
GateNames ==
  { t \in Texts(MaxTextLen) :
      /\ Len(t) >= 3
      /\ strip(t) = t
      /\ ~Contains(t, <<" ", " ">>)
      /\ CountAlpha(t) >= 3 }
  \cup { Repeat("a", NameMaxLength), Repeat("a", NameMaxLength + 1) }

\* what _extract_address can return: stripped lines that hold the keyword
\* '#' or a number followed by a word
GateAddresses ==
  { t \in Texts(MaxTextLen) :
      /\ strip(t) = t
      /\ Contains(t, <<"#">>) \/ Contains(t, <<"1", " ", "a">>) }
  \cup { <<"#">> \o Repeat("a", AddressMaxLength - 1),
         <<"#">> \o Repeat("a", AddressMaxLength) }

\* the longest run of digits on either side of the separator
MaxDigitRun == 4

\* the phone values a location dict can carry: an optional '+', digits,
\* and at most one separator among them
GatePhones ==
  { plus \o Repeat("6", a) \o sep \o Repeat("1", b) :
      plus \in {<<>>, <<"+">>}, sep \in {<<>>, <<"-">>, <<" ">>},
      a \in 1..MaxDigitRun, b \in 0..MaxDigitRun }

\* the results of the location engine with one of these texts
GateLocations ==
  { extract_location_from_bytes(TRUE, <<o, o, o>>) :
      o \in { LocationInfo(n, None, None, None, None) : n \in GateNames }
            \cup { LocationInfo(None, a, None, None, None) :
                     a \in GateAddresses }
            \cup { LocationInfo(None, None, p, None, None) :
                     p \in GatePhones } }

InitGate ==
  /\ request = [extract_location |-> TRUE, auto_crop |-> FALSE,
                crop_method |-> "opencv"]
  /\ pc = "override"
  /\ download_attempts = 1
  /\ file_bytes = Bytes("image", "original")
  /\ boundary_info = NoneD
  /\ crop_log = <<>>
  /\ location_data \in GateLocations
  /\ processed_bytes = Bytes("image", "normalized")
  /\ receipt = [doc_type |-> DocReceiptMeal, confidence |-> 82,
                fields |-> CloudFields(CloudEntry(ACME_MART, 90), TRUE)]
  /\ result = receipt
  /\ tesseract_location = NoneD
  /\ merchant_name_set = FALSE
  /\ fallback_result = NoneD
  /\ fallback_calls = <<>>
  /\ validation = NoneD
  /\ response = NoneD
  /\ OutsideHandlerIdle

NextGate ==
  \/ OverrideEnter
  \/ OverrideName
  \/ OverrideFallback
  \/ OverridePlaceholder
  \/ OverrideAddress
  \/ OverridePhone
  \/ OverrideMetadata
  \/ Validate
  \/ Respond

SpecGate == InitGate /\ [][NextGate]_vars

\* ------------------------------------------------------------------------
\* ------------------------------------------------------------------------
\* AzureReceiptDetector._crop_to_polygon on its own. Coordinates are floats
\* in the source; here they are counted in quarters (0.25 is 1), which a
\* float holds exactly, so that x * img_width is computed without rounding
\* ------------------------------------------------------------------------

\* 1.0 in quarters
One == 4

\* int(n / d): truncation towards zero
Trunc(n, d) == IF n >= 0 THEN n \div d ELSE 0 - ((0 - n) \div d)

SetMin(S) == CHOOSE m \in S : \A s \in S : m <= s

SetMax(S) == CHOOSE m \in S : \A s \in S : m >= s

\* lines 177-185: one point of the polygon in pixels
PixelPoint(p, img_width, img_height) ==
  IF p[1] <= One /\ p[2] <= One
  THEN <<Trunc(p[1] * img_width, One), Trunc(p[2] * img_height, One)>>
  ELSE <<Trunc(p[1], One), Trunc(p[2], One)>>

\* lines 174-201: the box handed to pil_image.crop
CropRectangle(polygon, img_width, img_height) ==
  LET pixel_polygon ==
        [i \in DOMAIN polygon |-> PixelPoint(polygon[i], img_width, img_height)]
      x_coords == { pixel_polygon[i][1] : i \in DOMAIN polygon }
      y_coords == { pixel_polygon[i][2] : i \in DOMAIN polygon }
  IN [min_x |-> Max(0, SetMin(x_coords)),
      min_y |-> Max(0, SetMin(y_coords)),
      max_x |-> Min(img_width, SetMax(x_coords)),
      max_y |-> Min(img_height, SetMax(y_coords))]

\* pil_image.crop and cropped.save produce a JPEG only of a box that is
\* not empty
Croppable(box) == box.max_x > box.min_x /\ box.max_y > box.min_y

\* the sizes of the images, in pixels
PolygonImages == { [width |-> 200, height |-> 400] }

\* how far outside the image the sampled pixel coordinates go
OutsideMargin == 40

\* the polygon coordinates sampled, in quarters: -0.25 .. 1.25 of the
\* side, and pixels from outside the image on one side to outside it on
\* the other
NormalizedSamples == {0 - 1, 0, 1, 2, One, One + 1}

AbsoluteSamples(side) ==
  { One * v : v \in {0 - OutsideMargin, 0, 1, OutsideMargin, side,
                     side + OutsideMargin, side + 2 * OutsideMargin} }

\* the rectangle with the corners (x0, y0) and (x1, y1), as the four points
\* _get_document_boundary lists
Rectangle(x0, y0, x1, y1) == <<<<x0, y0>>, <<x1, y0>>, <<x1, y1>>, <<x0, y1>>>>

Rectangles(xs, ys) ==
  { Rectangle(c[1], c[2], c[3], c[4]) :
      c \in { c \in xs \X ys \X xs \X ys : c[1] <= c[3] /\ c[2] <= c[4] } }

\* units: what the coordinates of the polygon are meant in
CropCalls ==
  UNION { { [img_width |-> s.width, img_height |-> s.height,
             units |-> "normalized", polygon |-> p] :
              p \in Rectangles(NormalizedSamples, NormalizedSamples) }
          \cup { [img_width |-> s.width, img_height |-> s.height,
                  units |-> "pixels", polygon |-> p] :
                   p \in Rectangles(AbsoluteSamples(s.width),
                                    AbsoluteSamples(s.height)) } :
          s \in PolygonImages }

InitPolygon ==
  /\ crop_call \in CropCalls
  /\ crop_outcome = NoneD
  /\ GeometryIdle
  /\ HandlerIdle /\ PreprocessorIdle /\ EngineIdle /\ LoopIdle

\* _crop_to_polygon (lines 155-215); opens: Image.open reads the bytes
CropToPolygon ==
  /\ crop_call # NoneD
  /\ crop_outcome = NoneD
  /\ \E opens \in BOOLEAN :
       LET box == CropRectangle(crop_call.polygon, crop_call.img_width,
                                crop_call.img_height)
       IN crop_outcome' =
            IF ~opens THEN [raised |-> TRUE, box |-> NoneD]
            ELSE [raised |-> ~Croppable(box), box |-> box]
  /\ UNCHANGED <<crop_call, detection, detector_result, handlerVars,
                 preprocessorVars, engineVars, loopVars>>

NextPolygon == CropToPolygon

SpecPolygon == InitPolygon /\ [][NextPolygon]_vars

\* ------------------------------------------------------------------------
\* TesseractOCRService.extract_location_from_bytes on its own: the three
\* strategies one after the other, each finding its own fields or raising
\* ------------------------------------------------------------------------

\* what one strategy can extract: nothing; a name and a postal code (0.4
\* and the bonus); an address, a phone and a country (0.6); another name
\* and a postal code; a name alone; an address alone
StrategyInfos ==
  { LocationInfo(None, None, None, None, None),
    LocationInfo(Acme_Mart, None, None, PostalCode, None),
    LocationInfo(None, MainStreet, LocalPhoneA, None, Singapore),
    LocationInfo(Corner_Deli, None, None, PostalCode, None),
    LocationInfo(Acme_Mart, None, None, None, None),
    LocationInfo(None, MainStreet, None, None, None) }

\* NoneD: the strategy raises in preprocessing, in the OCR or in the parsing
StrategyRuns ==
  { <<a, b, c>> : a \in StrategyInfos \cup {NoneD},
                  b \in StrategyInfos \cup {NoneD},
                  c \in StrategyInfos \cup {NoneD} }

InitStrategies ==
  /\ strategy_call \in [opens : BOOLEAN, outcomes : StrategyRuns]
  /\ strategy_pc = "open"
  /\ strategy_log = <<>>
  /\ best = NoneD
  /\ engine_return = NoneD
  /\ ParserIdle /\ ExtractorIdle
  /\ HandlerIdle /\ PreprocessorIdle /\ DetectorIdle /\ LoopIdle

outsideStrategies ==
  <<extracted, location_info, extractor_call, extractor_pc, tactics_tried,
    extractor_return, handlerVars, preprocessorVars, detectorVars,
    loopVars>>

\* the except of lines 118-121 leaving the loop
AfterFailure_Breaks(k) == Len(StrategyNames) + 1

\* the except of lines 118-121: continue with the next strategy
AfterFailure(k) == k + 1

\* lines 52-64: Image.open, or the except of line 132
OpenImage ==
  /\ strategy_pc = "open"
  /\ IF strategy_call.opens
     THEN /\ best' = NoBest
          /\ strategy_pc' = "strategy"
          /\ UNCHANGED engine_return
     ELSE /\ engine_return' = ImageOpenFailed
          /\ strategy_pc' = "done"
          /\ UNCHANGED best
  /\ UNCHANGED <<strategy_call, strategy_log, outsideStrategies>>

\* lines 66-121: the next strategy runs
RunStrategy ==
  /\ strategy_pc = "strategy"
  /\ LET k == Len(strategy_log) + 1
         o == strategy_call.outcomes[k]
         next == IF o = NoneD THEN AfterFailure(k) ELSE k + 1
     IN /\ strategy_log' = Append(strategy_log, StrategyNames[k])
        /\ best' = AfterStrategy(best, o, k)
        /\ strategy_pc' = IF next > Len(StrategyNames) THEN "return"
                          ELSE "strategy"
  /\ UNCHANGED <<strategy_call, engine_return, outsideStrategies>>

\* lines 123-130
ReturnBest ==
  /\ strategy_pc = "return"
  /\ engine_return' = IF best.best_result # NoneD THEN best.best_result
                      ELSE AllStrategiesFailed
  /\ strategy_pc' = "done"
  /\ UNCHANGED <<strategy_call, strategy_log, best, outsideStrategies>>

NextStrategies == OpenImage \/ RunStrategy \/ ReturnBest

SpecStrategies == InitStrategies /\ [][NextStrategies]_vars

\* ------------------------------------------------------------------------
\* StoreNameExtractor.extract_from_full_image on its own: the OCR pass and
\* the four tactics, each by whether it finds a name in the lines
\* ------------------------------------------------------------------------

\* the tactics of lines 62-67 with the pattern tactic first
TacticOrder_PatternFirst ==
  <<"pattern", "capitalization", "position", "known_chain">>

\* the tactics of lines 62-67, in the order of the or-chain
TacticOrder == <<"known_chain", "position", "capitalization", "pattern">>

\* the confidence each tactic reports, in hundredths (lines 98, 138, 173
\* and 204)
TacticConfidence(method) ==
  CASE method = "known_chain"    -> 80
    [] method = "position"       -> 60
    [] method = "capitalization" -> 50
    [] method = "pattern"        -> 40

\* the dict a tactic returns when it finds a name (without line_index)
TacticResult(method, store_name) ==
  [store_name |-> store_name, confidence |-> TacticConfidence(method),
   method |-> method]

\* line 53
TooShort(ocr_text) == ~Truthy(ocr_text) \/ Len(strip(ocr_text)) < 5

\* what pytesseract.image_to_string reads: nothing, 4 characters, 4
\* characters among spaces, 5 characters, and two names
OcrTexts ==
  { <<>>, <<"S","h","o","p">>, <<" "," ","S","h","o","p"," "," ">>,
    <<"S","h","o","p","s">>, Walmart, Corner_Deli }

Tactics == {"known_chain", "position", "capitalization", "pattern"}

\* found[t]: tactic t finds a name in the lines; raises: the tactic that
\* raises when called
ExtractorCalls ==
  [opens : BOOLEAN, ocr_text : OcrTexts,
   found : [Tactics -> BOOLEAN],
   raises : Tactics \cup {"none"}]

InitExtractor ==
  /\ extractor_call \in ExtractorCalls
  /\ extractor_pc = "ocr"
  /\ tactics_tried = <<>>
  /\ extractor_return = NoneD
  /\ ParserIdle /\ StrategiesIdle
  /\ HandlerIdle /\ PreprocessorIdle /\ DetectorIdle /\ LoopIdle

outsideExtractor ==
  <<extracted, location_info, strategy_call, strategy_pc, strategy_log, best,
    engine_return, handlerVars, preprocessorVars, detectorVars, loopVars>>

\* lines 46-59: Image.open and the OCR pass (opens: neither raises); the
\* except of line 71 and the return of line 54 give None (NoneD)
ReadText ==
  /\ extractor_pc = "ocr"
  /\ IF ~extractor_call.opens \/ TooShort(extractor_call.ocr_text)
     THEN /\ extractor_return' = NoneD
          /\ extractor_pc' = "done"
     ELSE /\ extractor_pc' = "tactic"
          /\ UNCHANGED extractor_return
  /\ UNCHANGED <<extractor_call, tactics_tried, outsideExtractor>>

\* lines 62-73: the next operand of the or-chain is evaluated
TryTactic ==
  /\ extractor_pc = "tactic"
  /\ LET k == Len(tactics_tried) + 1
         method == TacticOrder[k]
     IN /\ tactics_tried' = Append(tactics_tried, method)
        /\ IF extractor_call.raises = method
           THEN /\ extractor_return' = NoneD
                /\ extractor_pc' = "done"
           ELSE IF extractor_call.found[method]
                THEN /\ extractor_return' =
                          TacticResult(method, extractor_call.ocr_text)
                     /\ extractor_pc' = "done"
                ELSE IF k = Len(TacticOrder)
                     THEN /\ extractor_return' = NoneD
                          /\ extractor_pc' = "done"
                     ELSE UNCHANGED <<extractor_return, extractor_pc>>
  /\ UNCHANGED <<extractor_call, outsideExtractor>>

NextExtractor == ReadText \/ TryTactic

SpecExtractor == InitExtractor /\ [][NextExtractor]_vars

\* Vocabulary of the properties
\* ------------------------------------------------------------------------

MerchantFields == {"MerchantName", "MerchantAddress", "MerchantPhoneNumber"}

Done == pc = "done"

\* the handler returned a result with success=true
Succeeded == Done /\ response # NoneD /\ Get(response, "success", FALSE)

\* the location engine succeeded
LocalSucceeded == location_data # NoneD /\ Get(location_data, "success", FALSE)

CloudAnswered == receipt # NoneD

CloudHas(f) == CloudAnswered /\ f \in DOMAIN receipt.fields

\* who wrote the MerchantName entry of a result: its source attribute,
\* "cloud" for an entry without one, "absent" when there is no entry
NameSource(azure_result) ==
  IF azure_result = NoneD THEN "absent"
  ELSE IF "MerchantName" \notin DOMAIN azure_result.fields THEN "absent"
  ELSE Get(azure_result.fields["MerchantName"], "source", "cloud")

FallbackSources ==
  {"fallback_known_chain", "fallback_position", "fallback_capitalization",
   "fallback_pattern", "fallback_unknown"}

\* position of a writer in cloud -> local_ocr -> fallback -> placeholder
SourceRank(source) ==
  CASE source \in {"absent", "cloud"} -> 0
    [] source = "tesseract"           -> 1
    [] source \in FallbackSources     -> 2
    [] source = "placeholder"         -> 3
    [] OTHER                          -> 4

\* high special-character ratio and no word of three or more letters
IsGibberish(text) ==
  /\ Truthy(text)
  /\ 10 * CountSpecial(text) > 4 * Len(text)
  /\ \A i \in 1..Len(split(text)) : CountAlpha(split(text)[i]) < 3

\* the document type contains "receipt" in any letter case
HasReceiptWord(doc_type) ==
  \E i \in 1..Len(doc_type) :
    /\ i + 6 <= Len(doc_type)
    /\ \A j \in 1..7 : LowerChar(doc_type[i + j - 1]) = DocReceipt[j]

\* ------------------------------------------------------------------------
\* Properties
\* ------------------------------------------------------------------------

\* C1: during one reconciliation the writer of MerchantName never moves
\* backwards along cloud -> local_ocr -> fallback -> placeholder; an entry
\* written by local OCR, by the fallback or as the placeholder is never
\* replaced, and an acceptable cloud name (two or more characters after
\* trimming) is never replaced by the fallback or the placeholder.
C1_WriterNeverReversed ==
  [][ /\ SourceRank(NameSource(result')) >= SourceRank(NameSource(result))
      /\ SourceRank(NameSource(result)) >= 1
           => result'.fields["MerchantName"] = result.fields["MerchantName"]
      /\ (NameSource(result) = "cloud" /\ ~NameMissing(result.fields))
           => NameSource(result') \in {"cloud", "tesseract"}
    ]_vars

\* C1 witness: local OCR wrote the name over a missing cloud name and the
\* fallback and placeholder steps have passed.
C1_Witness ==
  /\ pc = "ov_address"
  /\ NameSource(result) = "tesseract"
  /\ ~CloudHas("MerchantName")

\* C2 as stated: for every cloud result with a merchant name and every
\* gibberish local store name, the final MerchantName entry is the cloud
\* entry; likewise MerchantAddress with a gibberish local address.
C2_GibberishLeavesCloud ==
  (Succeeded /\ LocalSucceeded) =>
    /\ (CloudHas("MerchantName")
        /\ IsGibberish(location_data.location.store_name))
         => /\ "MerchantName" \in DOMAIN response.data.fields
            /\ response.data.fields["MerchantName"]
                 = receipt.fields["MerchantName"]
    /\ (CloudHas("MerchantAddress")
        /\ IsGibberish(location_data.location.address))
         => /\ "MerchantAddress" \in DOMAIN response.data.fields
            /\ response.data.fields["MerchantAddress"]
                 = receipt.fields["MerchantAddress"]

\* C2 amended: for every cloud result whose merchant name has two or more
\* characters after trimming and every gibberish local store name, the
\* final MerchantName entry is the cloud entry; for every cloud
\* MerchantAddress and gibberish local address, the final MerchantAddress
\* entry is the cloud entry.
C2_GibberishLeavesUsableCloud ==
  (Succeeded /\ LocalSucceeded) =>
    /\ (CloudHas("MerchantName")
        /\ ~NameMissing(receipt.fields)
        /\ IsGibberish(location_data.location.store_name))
         => /\ "MerchantName" \in DOMAIN response.data.fields
            /\ response.data.fields["MerchantName"]
                 = receipt.fields["MerchantName"]
    /\ (CloudHas("MerchantAddress")
        /\ IsGibberish(location_data.location.address))
         => /\ "MerchantAddress" \in DOMAIN response.data.fields
            /\ response.data.fields["MerchantAddress"]
                 = receipt.fields["MerchantAddress"]

\* C2 witness: a gibberish local name and address met a cloud name and
\* address, and the response keeps both cloud entries.
C2_Witness ==
  /\ Succeeded
  /\ LocalSucceeded
  /\ location_data.location.store_name = GibberishName
  /\ location_data.location.address = GibberishAddr
  /\ CloudHas("MerchantName")
  /\ CloudHas("MerchantAddress")
  /\ receipt.fields["MerchantName"].value = ACME_MART
  /\ response.data.fields["MerchantName"] = receipt.fields["MerchantName"]
  /\ response.data.fields["MerchantAddress"]
       = receipt.fields["MerchantAddress"]

\* C3: whenever local OCR succeeds with a store name that passes the
\* validity gate, the final MerchantName is that name, with the local
\* confidence and the local-OCR source mark, whatever the cloud returned.
C3_ValidLocalNameWins ==
  (Succeeded /\ LocalSucceeded
   /\ is_valid_text(location_data.location.store_name, NameMaxLength))
    => /\ "MerchantName" \in DOMAIN response.data.fields
       /\ response.data.fields["MerchantName"].value
            = location_data.location.store_name
       /\ response.data.fields["MerchantName"].content
            = location_data.location.store_name
       /\ response.data.fields["MerchantName"].confidence
            = location_data.location.confidence
       /\ response.data.fields["MerchantName"].source = "tesseract"

\* C3 witness: cloud "ACME MART" at 0.9, local "Acme Mart" at 0.6.
C3_Witness ==
  /\ Succeeded
  /\ LocalSucceeded
  /\ CloudHas("MerchantName")
  /\ receipt.fields["MerchantName"].value = ACME_MART
  /\ receipt.fields["MerchantName"].confidence = 90
  /\ location_data.location.store_name = Acme_Mart
  /\ location_data.location.confidence = 60
  /\ response.data.fields["MerchantName"].value = Acme_Mart
  /\ response.data.fields["MerchantName"].source = "tesseract"

\* C4: when the cloud result has no merchant name, local OCR succeeded
\* with a store name that is not accepted, the fallback extractor is
\* called once, and when it returns a store name the final MerchantName
\* is that name with the fallback's confidence and a fallback source.
C4_FallbackNameWritten ==
  (Succeeded /\ LocalSucceeded /\ ~CloudHas("MerchantName")
   /\ ~LocalNameAccepted(location_data.location))
    => /\ Len(fallback_calls) = 1
       /\ FallbackFound(fallback_result)
            => /\ "MerchantName" \in DOMAIN response.data.fields
               /\ response.data.fields["MerchantName"].value
                    = fallback_result.store_name
               /\ response.data.fields["MerchantName"].confidence
                    = fallback_result.confidence
               /\ response.data.fields["MerchantName"].source
                    = FallbackSource(fallback_result.method)
               /\ response.data.fields["MerchantName"].source
                    \in FallbackSources

\* C4 witness: no cloud name, a gibberish local name, and the fallback's
\* "Corner Deli" is the final name.
C4_Witness ==
  /\ Succeeded
  /\ LocalSucceeded
  /\ ~CloudHas("MerchantName")
  /\ location_data.location.store_name = GibberishName
  /\ fallback_result # NoneD
  /\ FallbackFound(fallback_result)
  /\ response.data.fields["MerchantName"].value = Corner_Deli
  /\ response.data.fields["MerchantName"].confidence = 60
  /\ response.data.fields["MerchantName"].source = "fallback_position"

\* C5: when the cloud result has no merchant name, local OCR yields no
\* valid store name and the fallback finds nothing, the final MerchantName
\* is "Unknown Store" with source placeholder, confidence 0 and
\* requires_manual_review.
C5_PlaceholderWhenAllFail ==
  (Succeeded /\ ~CloudHas("MerchantName")
   /\ ~(LocalSucceeded /\ LocalNameAccepted(location_data.location))
   /\ ~FallbackFound(fallback_result))
    => /\ "MerchantName" \in DOMAIN response.data.fields
       /\ response.data.fields["MerchantName"].value = Unknown_Store
       /\ response.data.fields["MerchantName"].source = "placeholder"
       /\ response.data.fields["MerchantName"].confidence = 0
       /\ Get(response.data.fields["MerchantName"],
              "requires_manual_review", FALSE)

\* C6: every result returned with success=true holds a MerchantName entry.
C6_NameAlwaysPresent ==
  Succeeded => "MerchantName" \in DOMAIN response.data.fields

\* C7: when location extraction is disabled or did not succeed and the
\* cloud result has no merchant name, the fallback extractor has been
\* tried before the result is returned.
C7_FallbackTriedWithoutLocation ==
  (Succeeded /\ ~LocalSucceeded /\ ~CloudHas("MerchantName"))
    => Len(fallback_calls) >= 1

\* C8 as stated: every merchant entry of the final fields carries a source
\* attribute naming cloud, local OCR, the fallback or the placeholder.
C8_EveryEntryHasSource ==
  Succeeded =>
    \A f \in MerchantFields \cap DOMAIN response.data.fields :
      /\ "source" \in DOMAIN response.data.fields[f]
      /\ response.data.fields[f].source
           \in {"cloud", "tesseract", "placeholder"} \cup FallbackSources

\* C8 amended: every merchant entry of the final fields either was
\* written by reconciliation and carries a source attribute naming local
\* OCR, the fallback or the placeholder, or is exactly the entry the
\* cloud service provided, to which reconciliation adds no source.
C8_WrittenEntriesHaveSource ==
  Succeeded =>
    \A f \in MerchantFields \cap DOMAIN response.data.fields :
      \/ /\ "source" \in DOMAIN response.data.fields[f]
         /\ response.data.fields[f].source
              \in {"tesseract", "placeholder"} \cup FallbackSources
      \/ /\ CloudHas(f)
         /\ response.data.fields[f] = receipt.fields[f]

\* C8 witness: the final name was written by local OCR, the final phone
\* was written by local OCR, and the final address is the cloud's entry.
C8_Witness ==
  /\ Succeeded
  /\ MerchantFields \subseteq DOMAIN response.data.fields
  /\ Get(response.data.fields["MerchantName"], "source", "cloud")
       = "tesseract"
  /\ Get(response.data.fields["MerchantPhoneNumber"], "source", "cloud")
       = "tesseract"
  /\ CloudHas("MerchantAddress")
  /\ response.data.fields["MerchantAddress"]
       = receipt.fields["MerchantAddress"]
  /\ "source" \notin DOMAIN response.data.fields["MerchantAddress"]

\* C9: the fallback extractor is called at most once, and only after
\* local OCR gave no accepted store name and the cloud merchant name is
\* absent or shorter than two characters after trimming.
C9_FallbackOnlyWhenBothFail ==
  /\ Len(fallback_calls) <= 1
  /\ Len(fallback_calls) >= 1
       => /\ LocalSucceeded
          /\ ~LocalNameAccepted(location_data.location)
          /\ NameMissing(receipt.fields)

\* C9 witness: the fallback was called for a cloud name that is present
\* but shorter than two characters after trimming.
C9_Witness ==
  /\ Len(fallback_calls) = 1
  /\ CloudHas("MerchantName")
  /\ Truthy(receipt.fields["MerchantName"].value)
  /\ location_data.location.store_name = GibberishName

\* C10: the verdict is valid exactly when confidence >= 0.7 and the
\* document type contains "receipt" in any letter case; an invalid
\* verdict's message names the wrong document type whenever the type
\* lacks "receipt" and low confidence otherwise.
C10_ValidatorVerdict ==
  validation # NoneD =>
    /\ validation.doc_type = result.doc_type
    /\ validation.confidence = result.confidence
    /\ validation.is_valid_receipt
         <=> (result.confidence >= 70 /\ HasReceiptWord(result.doc_type))
    /\ ~validation.is_valid_receipt
         => validation.message.kind =
              IF HasReceiptWord(result.doc_type) THEN "low_confidence"
              ELSE "not_a_receipt"
    /\ validation.is_valid_receipt => validation.message.kind = "valid"
    /\ (result.doc_type = DocReceipt /\ result.confidence = 82)
         => validation.is_valid_receipt
    /\ (result.doc_type = DocInvoice /\ result.confidence = 90)
         => /\ ~validation.is_valid_receipt
            /\ validation.message.kind = "not_a_receipt"

\* C10 witness: an invoice at 0.9 was judged invalid as not a receipt.
C10_Witness ==
  /\ validation # NoneD
  /\ result.doc_type = DocInvoice
  /\ result.confidence = 90
  /\ ~validation.is_valid_receipt
  /\ validation.message.kind = "not_a_receipt"

\* ------------------------------------------------------------------------
\* The image preprocessor
\* ------------------------------------------------------------------------

\* process has returned
Processed == pp_pc = "done"

SizeCeiling == max_size_bytes(MAX_FILE_SIZE_MB)

\* C11 as stated: whatever process returns is at most the size ceiling, or
\* it is the unmodified input.
C11_UnderCeilingOrUnmodified ==
  Processed =>
    \/ returned.size <= SizeCeiling
    \/ returned = input_bytes

\* C11: whatever process returns is at most the size ceiling, or it is the
\* unmodified input, or it is the encoding at the lowest quality, returned
\* although it is over the ceiling because the re-encodings are used up.
C11_UnderCeilingOrUnmodifiedOrLastEncoding ==
  Processed =>
    \/ returned.size <= SizeCeiling
    \/ returned = input_bytes
    \/ /\ quality < MinQuality
       /\ returned = encoded
       /\ returned.passes = input_bytes.passes + 1

\* the ceiling cannot be met: the last encoding is returned over budget
C11_Witness ==
  /\ Processed
  /\ quality < MinQuality
  /\ returned = encoded
  /\ returned.size > SizeCeiling
  /\ returned # input_bytes
  /\ input_bytes.size <= SkipThresholdBytes

\* C12: process never raises: it always returns bytes, and when the input
\* is empty or cannot be decoded, or any pipeline step or the encoding
\* fails, what it returns is the original bytes unchanged.
C12_FailureReturnsOriginal ==
  /\ Processed => returned \in
                    { Payload(c, s, n) :
                        c \in {"empty", "pdf", "image", "junk"},
                        s \in {0} \cup InputSizes \cup EncodedSizes,
                        n \in 0..MaxCalls }
  /\ \A i \in 1..Len(calls) :
       (calls[i].via = "except" \/ calls[i].input.content \in {"empty", "junk"})
         => calls[i].output = calls[i].input

\* a step in the middle of the pipeline failed and the input came back
C12_Witness ==
  \E i \in 1..Len(calls) :
    /\ calls[i].via = "except"
    /\ calls[i].input.content = "image"
    /\ Len(calls[i].steps) = 3
    /\ calls[i].output = calls[i].input

\* C13: a PDF payload, and an input larger than 3.5 MB, is returned
\* byte-identical with no pipeline step run, and processing the returned
\* bytes again returns them again.
C13_SkippedInputIsIdentity ==
  \A i \in 1..Len(calls) :
    (calls[i].input.content = "pdf" \/ calls[i].input.size > SkipThresholdBytes)
      => /\ calls[i].output = calls[i].input
         /\ calls[i].steps = <<>>
         /\ calls[i].via = "return"
         /\ i > 1 => calls[i].output = calls[i - 1].output

\* an image just over 3.5 MB and under the ceiling went through twice
C13_Witness ==
  /\ Len(calls) = 2
  /\ calls[1].input.content = "image"
  /\ calls[1].input.size = SkipThresholdBytes + 1
  /\ calls[2].output = calls[1].input


\* ------------------------------------------------------------------------
\* The geometry detector
\* ------------------------------------------------------------------------

Detected == detector_result # NoneD

\* the detected bounding box covers less than percent per cent of the image
BoxBelow(percent) ==
  /\ detection.contour # NoneD
  /\ 100 * detection.contour.w * detection.contour.h
       < percent * detection.shape.width * detection.shape.height

BoxAbove(percent) ==
  /\ detection.contour # NoneD
  /\ 100 * detection.contour.w * detection.contour.h
       > percent * detection.shape.width * detection.shape.height

\* C14: detect_and_crop never crops to a bounding box that covers less
\* than 5% of the image, nor to one that covers more than 98% unless it
\* covers at least 95% (the carve-out); a box rejected for its area gives
\* back the original bytes.
C14_AreaRatioBounds ==
  Detected =>
    /\ detector_result.bytes = "cropped" =>
         /\ ~BoxBelow(5)
         /\ BoxAbove(98) => ~BoxBelow(95)
    /\ BoxBelow(5) => detector_result = OriginalImage

\* a box of 100 x 750 pixels in a 1000 x 3000 image (2.5%) is rejected for
\* its area alone
C14_Witness ==
  /\ Detected
  /\ BoxBelow(5)
  /\ detection.contour.w >= 100
  /\ detection.contour.h >= 100
  /\ detector_result = OriginalImage


\* ------------------------------------------------------------------------
\* The location confidence
\* ------------------------------------------------------------------------

\* the weights of the five fields, in hundredths
FieldWeights ==
  [store_name |-> 25, address |-> 30, phone |-> 20, postal_code |-> 15,
   country |-> 10]

\* the fields the extractors found
Populated == { f \in DOMAIN FieldWeights : extracted[f] # None }

RECURSIVE WeightSum(_)
WeightSum(fields) ==
  IF fields = {} THEN 0
  ELSE LET f == CHOOSE g \in fields : TRUE
       IN FieldWeights[f] + WeightSum(fields \ {f})

\* C15: the location confidence is the sum of the weights (0.25, 0.30,
\* 0.20, 0.15, 0.10) of exactly the populated fields, lies in [0, 1], and is
\* 0.55 when only the store name and the address are found.
C15_ConfidenceIsWeightSum ==
  location_info # NoneD =>
    /\ location_info.confidence = WeightSum(Populated)
    /\ location_info.confidence \in 0..100
    /\ Populated = {"store_name", "address"} => location_info.confidence = 55

\* only the store name and the address are found
C15_Witness ==
  /\ location_info # NoneD
  /\ Populated = {"store_name", "address"}
  /\ location_info.confidence = 55


\* ------------------------------------------------------------------------
\* The remote fetch and the crop of analyze_receipt
\* ------------------------------------------------------------------------

\* max_retries of download_image_with_retry
max_retries == 3

FetchFailed == Done /\ response = HTTP400("download failed")

\* C16: in analyze_receipt a failing remote fetch is retried, and its
\* error is surfaced only after the last of 3 attempts has failed.
C16_FetchErrorAfterLastAttempt ==
  /\ download_attempts <= max_retries
  /\ FetchFailed => download_attempts = max_retries

\* the layout strategy was called and ended by raising
LayoutCallFailed(call) ==
  /\ call.detector = "azure_layout"
  /\ call.outcome \in {"init_error", "service_error"}

\* C17: with crop method azure_layout, when the layout service call fails
\* with any error the geometry strategy is run on the image.
C17_LayoutFailureFallsBack ==
  \A i \in 1..Len(crop_log) :
    LayoutCallFailed(crop_log[i])
      => \E j \in (i + 1)..Len(crop_log) : crop_log[j].detector = "opencv"


\* the cloud analysis was called and gave no document: it raised or it
\* found none
AnalysisFailed == Done /\ processed_bytes # NoneD /\ ~CloudAnswered

\* C18: a failing cloud analysis is fatal: the request never ends with
\* success=true; an exception ends it with one HTTP 400 that carries the
\* cause text, no document ends it with success=false and the error
\* "No receipt data found"; neither reconciliation nor validation is run.
C18_AnalysisFailureIsFatal ==
  /\ Succeeded => CloudAnswered
  /\ AnalysisFailed =>
       /\ \/ response = [raised |-> "HTTPException", status_code |-> 400,
                         detail |-> "analysis failed"]
          \/ response = [success |-> FALSE, error |-> "No receipt data found",
                         location |-> location_data]
       /\ result = NoneD
       /\ tesseract_location = NoneD
       /\ fallback_calls = <<>>
       /\ validation = NoneD

\* the cloud call raised after the location engine had found a store name
C18_Witness ==
  /\ AnalysisFailed
  /\ LocalSucceeded
  /\ response = HTTP400("analysis failed")
  /\ validation = NoneD


\* ------------------------------------------------------------------------
\* Concurrent requests
\* ------------------------------------------------------------------------

\* the stages that are a cloud call or CPU-bound work
BlockingStages == {"crop", "locate", "preprocess", "analyze"}

\* request r waits for the loop to run its code
Runnable(r) == position[r] \in {"queued", "fetched"}

\* C19: while one request is inside a cloud call or a CPU-bound stage, the
\* request layer can run the code of every other request that is waiting
\* to be run.
C19_OtherRequestsProgress ==
  \A r \in DOMAIN position, o \in DOMAIN position :
    (o # r /\ position[r] \in BlockingStages /\ Runnable(o))
      => ENABLED (Accept(o) \/ Resume(o))


\* ------------------------------------------------------------------------
\* The gate on local text
\* ------------------------------------------------------------------------

\* the entry of field f was written from the local engine's text
WrittenLocally(f) ==
  /\ result # NoneD
  /\ "fields" \in DOMAIN result
  /\ f \in DOMAIN result.fields
  /\ Get(result.fields[f], "source", "azure") = "tesseract"

\* the gate as the claim states it: length within the cap, letter ratio at
\* least 0.3, special-character ratio under 0.4, a token of 3 or more
\* characters that has a letter
StatedGate(text, cap) ==
  /\ Len(text) <= cap
  /\ 10 * CountAlpha(text) >= 3 * Len(text)
  /\ 10 * CountSpecial(text) < 4 * Len(text)
  /\ \E i \in 1..Len(split(text)) :
       Len(split(text)[i]) >= 3 /\ CountAlpha(split(text)[i]) > 0

\* C20: a local store name or address is written into the result only if
\* it passes the whole gate: length within the cap (100 for the name, 300
\* for the address), letter ratio at least 0.3, special-character ratio
\* under 0.4, and a token of length 3 or more.
C20_WrittenOnlyThroughGate ==
  /\ WrittenLocally("MerchantName")
       => StatedGate(result.fields["MerchantName"].value, 100)
  /\ WrittenLocally("MerchantAddress")
       => StatedGate(result.fields["MerchantAddress"].value, 300)


\* ------------------------------------------------------------------------
\* The gate on the local phone
\* ------------------------------------------------------------------------

DigitCount(text) == Cardinality({ i \in 1..Len(text) : isdigit(text[i]) })

\* the reconciliation is past its phone step
PhoneStepDone ==
  pc \in {"ov_metadata", "validate", "respond", "done"}
  /\ tesseract_location # NoneD
  /\ ~ReturnsEarly(tesseract_location)

LocalPhone == tesseract_location.location.phone

\* C21: a local phone is written to MerchantPhoneNumber only if it has at
\* least 7 digits once '+', '-' and spaces are stripped; a local phone
\* with fewer digits leaves MerchantPhoneNumber as the cloud provided it.
C21_PhoneNeedsSevenDigits ==
  PhoneStepDone =>
    /\ WrittenLocally("MerchantPhoneNumber")
         => DigitCount(result.fields["MerchantPhoneNumber"].value) >= 7
    /\ (LocalPhone # None /\ DigitCount(LocalPhone) < 7)
         => /\ CloudHas("MerchantPhoneNumber")
            /\ result.fields["MerchantPhoneNumber"]
                 = receipt.fields["MerchantPhoneNumber"]

\* a local phone of 6 digits, a '+' and a '-' (8 characters) is discarded
C21_Witness ==
  /\ PhoneStepDone
  /\ LocalPhone # None
  /\ DigitCount(LocalPhone) = 6
  /\ Len(LocalPhone) = 8
  /\ result.fields["MerchantPhoneNumber"] = receipt.fields["MerchantPhoneNumber"]

\* ------------------------------------------------------------------------
\* The bytes given to the fallback extractor
\* ------------------------------------------------------------------------

\* C22: with auto-crop enabled, the bytes the fallback store-name extractor
\* receives are the original bytes as downloaded: neither the cropped bytes
\* nor the normalized bytes sent to the cloud service.
C22_FallbackReadsOriginal ==
  request.auto_crop =>
    \A i \in DOMAIN fallback_calls : fallback_calls[i].stage = "original"

\* ------------------------------------------------------------------------
\* The re-encoding loop
\* ------------------------------------------------------------------------

InLoop == pp_pc = "encode"

LoopLeft == pp_pc \in {"return", "done"}

\* the qualities 95, 90, ... after at most n lowerings
QualitiesAfter(n) == { 95 - 5 * k : k \in 0..n }

\* the loop is about to encode at one of the 8 qualities 95 .. 60
LoopQualities == InLoop => quality \in QualitiesAfter(7) /\ quality >= 60

\* the loop ended at the first encoding within the ceiling, or below the
\* floor with the encoding of quality 60 over the ceiling
LoopExit ==
  pp_pc = "return" =>
    \/ quality \in QualitiesAfter(7) /\ encoded.size <= SizeCeiling
    \/ quality = 55 /\ encoded.size > SizeCeiling

\* what is returned after the loop is the last encoding
ReturnsLastEncoding ==
  (Processed /\ encoded # NoneD /\ calls[Len(calls)].via = "return")
    => returned = encoded

\* an iteration that stays in the loop has lowered the quality by 5
LoopStep ==
  (InLoop /\ pp_pc' = "encode") => quality' = quality - 5

\* C23: the re-encoding loop always terminates: it starts at quality 95,
\* lowers it by 5 per iteration, stops at the first encoding no larger than
\* the ceiling, encodes at most 8 times (down to 60) and, when the encoding
\* at the floor is still over the ceiling, returns that last encoding.
C23_LoopTerminates ==
  /\ [](LoopQualities /\ LoopExit /\ ReturnsLastEncoding)
  /\ [][LoopStep]_vars
  /\ [][pp_pc' = "encode" /\ ~InLoop => quality' = 95]_vars
  /\ (InLoop ~> LoopLeft)

\* all 8 encodings were over the ceiling and the last one was returned
C23_Witness ==
  /\ Processed
  /\ quality = 55
  /\ returned = encoded
  /\ returned.size > SizeCeiling

\* ------------------------------------------------------------------------
\* The dimensions of the box the geometry strategy crops to
\* ------------------------------------------------------------------------

Cropped == Detected /\ detector_result.bytes = "cropped"

BoxLong == Max(detection.contour.w, detection.contour.h)

BoxShort == Min(detection.contour.w, detection.contour.h)

\* the box passes the stated validation of its dimensions
BoxWellShaped ==
  /\ detection.contour.w >= 100
  /\ detection.contour.h >= 100
  /\ BoxLong <= 15 * BoxShort

\* C24: the geometry strategy crops only when the bounding box is at least
\* 100 x 100 pixels and its long side is at most 15 times its short side,
\* whatever its accepted area ratio, the boxes of the carve-out included; a
\* box that fails the validation gives back the original bytes.
C24_CropsOnlyWellShapedBoxes ==
  Detected =>
    /\ Cropped => BoxWellShaped
    /\ (detection.contour # NoneD /\ ~BoxWellShaped)
         => detector_result = OriginalImage

\* ------------------------------------------------------------------------
\* The crop rectangle after the padding
\* ------------------------------------------------------------------------

\* C30: after the adaptive padding the crop rectangle of every accepted
\* bounding box lies inside the image and is not empty: x >= 0, y >= 0,
\* w >= 1, h >= 1, x + w <= image width and y + h <= image height.
C30_CropBoxInsideImage ==
  Cropped =>
    LET box == detector_result.box
    IN /\ box.x >= 0 /\ box.y >= 0
       /\ box.w >= 1 /\ box.h >= 1
       /\ box.x + box.w <= detection.shape.width
       /\ box.y + box.h <= detection.shape.height

\* a box in the corner of the image: the padding is cut off on two sides
\* and kept on the other two
C30_Witness ==
  /\ Cropped
  /\ detection.contour.x = 0 /\ detection.contour.y = 0
  /\ detector_result.box.x = 0 /\ detector_result.box.y = 0
  /\ detector_result.box.w > detection.contour.w
  /\ detector_result.box.h > detection.contour.h
  /\ detector_result.box.w < detection.shape.width
  /\ detector_result.box.h < detection.shape.height

\* ------------------------------------------------------------------------
\* The rectangle the layout strategy crops to
\* ------------------------------------------------------------------------

\* the call returned a cropped image
PolygonCropped == crop_outcome # NoneD /\ ~crop_outcome.raised

Clamp(v, low, high) == Max(low, Min(high, v))

\* a coordinate of the polygon in pixels, by the units it is meant in
StatedPixel(v, side) ==
  IF crop_call.units = "normalized" THEN Trunc(v * side, One)
  ELSE Trunc(v, One)

\* the bounding rectangle of the polygon in pixels, clamped to the image
StatedRectangle ==
  LET xs == { StatedPixel(crop_call.polygon[i][1], crop_call.img_width) :
                i \in DOMAIN crop_call.polygon }
      ys == { StatedPixel(crop_call.polygon[i][2], crop_call.img_height) :
                i \in DOMAIN crop_call.polygon }
  IN [min_x |-> Clamp(SetMin(xs), 0, crop_call.img_width),
      min_y |-> Clamp(SetMin(ys), 0, crop_call.img_height),
      max_x |-> Clamp(SetMax(xs), 0, crop_call.img_width),
      max_y |-> Clamp(SetMax(ys), 0, crop_call.img_height)]

\* C25: for every boundary polygon, normalized or in pixels, with points
\* outside the image or not, _crop_to_polygon first maps normalized
\* coordinates to pixels and then crops to a rectangle clamped to the
\* image: 0 <= min_x <= max_x <= width and 0 <= min_y <= max_y <= height.
C25_CropsToClampedRectangle ==
  PolygonCropped =>
    LET box == crop_outcome.box
    IN /\ 0 <= box.min_x /\ box.min_x <= box.max_x
       /\ box.max_x <= crop_call.img_width
       /\ 0 <= box.min_y /\ box.min_y <= box.max_y
       /\ box.max_y <= crop_call.img_height
       /\ box = StatedRectangle

\* ------------------------------------------------------------------------
\* The choice among the preprocessing variants
\* ------------------------------------------------------------------------

EngineReturned == strategy_pc = "done"

Variants == DOMAIN StrategyNames

\* the variants that did not fail
Ran == { k \in Variants : strategy_call.outcomes[k] # NoneD }

\* the stated score of variant k, in hundredths: the location confidence
\* plus 0.2 when a store name is present
StatedScore(k) ==
  LET o == strategy_call.outcomes[k]
  IN o.confidence + (IF Truthy(o.store_name) THEN 20 ELSE 0)

\* the earliest of the variants with the highest stated score
StatedBest ==
  CHOOSE k \in Ran :
    /\ \A j \in Ran : StatedScore(j) <= StatedScore(k)
    /\ \A j \in Ran : j < k => StatedScore(j) < StatedScore(k)

SomeVariantScored == \E k \in Ran : StatedScore(k) > 0

\* C26: when some variant scores above 0, extract_location_from_bytes
\* returns the result of the variant with the highest score (confidence
\* plus 0.2 when a store name is present) among the variants that did not
\* fail, and of the earliest such variant in the order enhanced, simple,
\* high_contrast when several reach that score.
C26_BestVariantEarliestOnTies ==
  (EngineReturned /\ strategy_call.opens /\ SomeVariantScored) =>
    /\ engine_return.success
    /\ engine_return.strategy_used = StrategyNames[StatedBest]
    /\ engine_return.location = strategy_call.outcomes[StatedBest]

\* C27: a variant that fails does not stop the engine: all three variants
\* are run and the ones after the failure still compete; when every
\* variant fails or the image cannot be opened the engine returns
\* success=false and location=None; it always returns a result.
C27_VariantFailureIsContained ==
  EngineReturned =>
    /\ "success" \in DOMAIN engine_return
    /\ strategy_call.opens => strategy_log = StrategyNames
    /\ (strategy_call.opens /\ SomeVariantScored) => engine_return.success
    /\ (~strategy_call.opens \/ Ran = {}) =>
         /\ ~engine_return.success
         /\ engine_return.location = NoneD

\* the first variant failed and the second one's result was returned
C27_Witness ==
  /\ EngineReturned
  /\ strategy_call.opens
  /\ strategy_call.outcomes[1] = NoneD
  /\ engine_return.success
  /\ engine_return.strategy_used = "simple"
  /\ strategy_log = StrategyNames

\* C29: the engine reports success=true exactly when some variant ran
\* without error and scored above 0; when all variants run without error
\* and none finds a field it returns success=false with the error "All
\* preprocessing strategies failed".
C29_SuccessIffPositiveScore ==
  EngineReturned =>
    /\ engine_return.success <=> (strategy_call.opens /\ SomeVariantScored)
    /\ (strategy_call.opens /\ Ran = Variants /\ ~SomeVariantScored) =>
         /\ ~engine_return.success
         /\ engine_return.error = "All preprocessing strategies failed"

\* the three variants ran and found nothing
C29_Witness ==
  /\ EngineReturned
  /\ strategy_call.opens
  /\ Ran = Variants
  /\ \A k \in Variants : strategy_call.outcomes[k].confidence = 0
  /\ engine_return = AllStrategiesFailed

\* ------------------------------------------------------------------------
\* The ladder of the fallback extractor
\* ------------------------------------------------------------------------

ExtractorReturned == extractor_pc = "done"

\* the stated order of the tactics and their confidences, in hundredths
StatedLadder ==
  <<[method |-> "known_chain", confidence |-> 80],
    [method |-> "position", confidence |-> 60],
    [method |-> "capitalization", confidence |-> 50],
    [method |-> "pattern", confidence |-> 40]>>

\* the call reaches the tactics and no tactic raises
LadderRuns ==
  /\ extractor_call.opens
  /\ Len(strip(extractor_call.ocr_text)) >= 5
  /\ extractor_call.raises = "none"

\* C28: the fallback extractor tries the tactics known-chain (0.8),
\* position (0.6), capitalization (0.5), pattern (0.4) in that order and
\* returns the result of the first that succeeds: a later tactic is called,
\* and its result returned, only when every earlier one returned nothing;
\* it returns none when the OCR text has fewer than 5 characters, when all
\* tactics fail, or on an error.
C28_FirstSuccessfulTactic ==
  /\ \A k \in DOMAIN tactics_tried :
       /\ k <= Len(StatedLadder)
       /\ tactics_tried[k] = StatedLadder[k].method
       /\ \A j \in 1..(k - 1) : ~extractor_call.found[tactics_tried[j]]
  /\ ExtractorReturned =>
       /\ extractor_return # NoneD =>
            /\ tactics_tried # <<>>
            /\ extractor_return.method = tactics_tried[Len(tactics_tried)]
            /\ extractor_return.confidence
                 = StatedLadder[Len(tactics_tried)].confidence
            /\ extractor_call.found[extractor_return.method]
       /\ (LadderRuns /\ \E t \in Tactics : extractor_call.found[t])
            => extractor_return # NoneD
       /\ (\/ ~extractor_call.opens
           \/ Len(strip(extractor_call.ocr_text)) < 5
           \/ \A t \in Tactics : ~extractor_call.found[t])
            => extractor_return = NoneD
       /\ (extractor_return = NoneD /\ LadderRuns)
            => \A t \in Tactics : ~extractor_call.found[t]
       /\ (\E k \in DOMAIN tactics_tried :
             tactics_tried[k] = extractor_call.raises)
            => extractor_return = NoneD

\* the first two tactics found nothing and the capitalization tactic's
\* result was returned, although the pattern tactic would have found a
\* name too
C28_Witness ==
  /\ ExtractorReturned
  /\ tactics_tried = <<"known_chain", "position", "capitalization">>
  /\ extractor_call.found["pattern"]
  /\ extractor_return # NoneD
  /\ extractor_return.method = "capitalization"
  /\ extractor_return.confidence = 50

=============================================================================
